---------------------------- MODULE JournalProofs ----------------------------
(***************************************************************************)
(* Theorems about the journal alerts (journalalerts), for a journal of any *)
(* length and any number of crashes and read errors.                       *)
(***************************************************************************)
EXTENDS JournalAlerts, TLAPS

-----------------------------------------------------------------------------
(***************************************************************************)
(* The inductive invariant.                                                *)
(***************************************************************************)

Reported == sent \union failed \union midway

\* A cursor, once stored, is never the empty one again.
CursorStored ==
    /\ first \in 0 .. entries
    /\ first = 0 <=> cursor = 0

\* While an entry is in work, everything before it is dealt with.
EntryInWork ==
    pc = "entry" =>
        /\ position # 0
        /\ \A k \in deserving : first # 0 /\ first < k /\ k < position => k \in Reported

JournalInv == TypeOK /\ CursorStored /\ EntryInWork /\ CursorCovers /\ NothingSkipped

LEMMA InitInv == Init => JournalInv
BY ConstantsAssumption
   DEF Init, JournalInv, TypeOK, CursorStored, EntryInWork, CursorCovers, NothingSkipped

\* A cursor is stored, by the timer or by Close, while the process runs: what lies
\* before it was dealt with, or is the entry Close came upon.
LEMMA StoreInv ==
    ASSUME JournalInv, StoreCursor, pc # "down",
           midway \subseteq midway', pc = "entry" => position \in midway',
           closePC' \in {"open", "store", "close", "closed"},
           UNCHANGED <<entries, deserving, position, pc, result, sent, failed>>
    PROVE  JournalInv'
<1> USE DEF JournalInv
<1>0. entries \in Nat /\ position \in 0 .. entries /\ cursor \in 0 .. entries /\ first \in 0 .. entries
  BY ConstantsAssumption DEF TypeOK, CursorStored
<1>1. CASE position = 0
  <2>1. cursor' = cursor /\ first' = first
    BY <1>0, <1>1 DEF StoreCursor, CurrentCursor, CursorStored
  <2> QED BY <2>1 DEF TypeOK, CursorStored, EntryInWork, CursorCovers, NothingSkipped, Reported
<1>2. CASE position # 0
  <2>1. cursor' = position /\ first' = IF first = 0 THEN position ELSE first
    BY <1>2 DEF StoreCursor, CurrentCursor
  <2>2. TypeOK' /\ CursorStored'
    BY <1>0, <1>2, <2>1 DEF TypeOK, CursorStored
  <2>3. ASSUME NEW k \in deserving, first' < k, k <= position
        PROVE  k \in sent \union failed \union midway'
    <3>0. k \in Nat
      BY <1>0 DEF TypeOK
    <3>1. first # 0 /\ first' = first
      BY <1>0, <2>1, <2>3, <3>0
    <3>2. CASE pc # "entry"
      BY <1>0, <2>3, <3>1, <3>2 DEF NothingSkipped
    <3>3. CASE pc = "entry"
      BY <1>0, <2>3, <3>0, <3>1, <3>3 DEF EntryInWork, Reported
    <3> QED BY <3>2, <3>3
  <2>4. CursorCovers' /\ NothingSkipped'
    BY <2>1, <2>3 DEF CursorCovers, NothingSkipped
  <2>5. EntryInWork'
    <3>1. \A k \in deserving : k < position => k <= position
      BY <1>0 DEF TypeOK
    <3> QED BY <2>3, <3>1, <1>2 DEF EntryInWork, Reported
  <2> QED BY <2>2, <2>4, <2>5
<1> QED BY <1>1, <1>2

\* Every step of the process, of Close and of the system keeps the invariant.
LEMMA NextInv == JournalInv /\ [Next]_vars => JournalInv'
<1> SUFFICES ASSUME JournalInv, [Next]_vars PROVE JournalInv'
  OBVIOUS
<1> USE DEF JournalInv, goVars, closeVars, histVars
<1>0. entries \in Nat /\ position \in 0 .. entries /\ cursor \in 0 .. entries /\ first \in 0 .. entries
  BY ConstantsAssumption DEF TypeOK, CursorStored
<1>1. CASE AppendEntry
  <2>1. /\ entries < MaxEntries /\ entries' = entries + 1
        /\ deserving \subseteq deserving'
        /\ deserving' \subseteq deserving \union {entries + 1}
        /\ UNCHANGED <<cursor, goVars, closeVars, sent, failed, histVars>>
    BY <1>1 DEF AppendEntry
  <2>2. TypeOK'
    <3>1. 1 .. entries \subseteq 1 .. entries' /\ entries + 1 \in 1 .. entries'
      BY <1>0, <2>1
    <3>2. deserving' \subseteq 1 .. entries' /\ failed' \subseteq 1 .. entries' /\ sent' \subseteq deserving'
      BY <2>1, <3>1 DEF TypeOK
    <3>3. entries' \in 0 .. MaxEntries /\ position' \in 0 .. entries' /\ cursor' \in 0 .. entries'
      BY <1>0, <2>1, ConstantsAssumption
    <3> QED BY <2>1, <3>2, <3>3 DEF TypeOK
  <2>3. \A k \in deserving' : k <= position \/ k <= cursor => k \in deserving
    BY <1>0, <2>1
  <2>4. \A k \in deserving' : k < position => k \in deserving
    BY <1>0, <2>1
  <2>5. CursorStored'
    BY <1>0, <2>1 DEF CursorStored
  <2>6. CursorCovers' /\ NothingSkipped'
    BY <2>1, <2>3 DEF CursorCovers, NothingSkipped
  <2>7. EntryInWork'
    BY <2>1, <2>4 DEF EntryInWork, Reported
  <2> QED BY <2>2, <2>5, <2>6, <2>7
<1>2. CASE Crash
  BY <1>2 DEF Crash, TypeOK, CursorStored, EntryInWork, CursorCovers, NothingSkipped
<1>3. CASE setupJournal
  <2>1. /\ position' = StartPosition /\ pc' = "started" /\ result' = "append" /\ closePC' = "open"
        /\ UNCHANGED <<entries, deserving, cursor, sent, failed, midway, first>>
    BY <1>3 DEF setupJournal
  <2>2. position' \in 0 .. entries /\ (first # 0 => position' = cursor)
    BY <1>0, <2>1 DEF StartPosition, CursorStored
  <2> QED BY <1>0, <2>1, <2>2 DEF TypeOK, CursorStored, EntryInWork, CursorCovers, NothingSkipped
<1>4. CASE storeCurrentCursor
  BY <1>4, StoreInv DEF storeCurrentCursor, TypeOK
<1>5. CASE SetCancelFunction \/ Done \/ Default \/ Wait
  <2>1. /\ pc \notin {"down", "entry"} /\ pc' \notin {"down", "entry"}
        /\ UNCHANGED <<entries, deserving, cursor, position, closePC, sent, failed, midway, first>>
    BY <1>5 DEF SetCancelFunction, Done, Default, Wait
  <2>2. pc' \in {"select", "ended", "process", "wait"} /\ result' \in {"append", "nop"}
    BY <1>5 DEF SetCancelFunction, Done, Default, Wait, WaitResult, TypeOK
  <2> QED BY <2>1, <2>2 DEF TypeOK, CursorStored, EntryInWork, CursorCovers, NothingSkipped
<1>6. CASE NextEntry
  <2>0. /\ pc = "process"
        /\ UNCHANGED <<entries, deserving, cursor, result, closePC, sent, failed, midway, first>>
    BY <1>6 DEF NextEntry
  <2>1. CASE position < entries /\ position' = position + 1 /\ pc' = "entry"
    <3>1. position' \in 0 .. entries /\ position' # 0
      BY <1>0, <2>1
    <3>2. \A k \in deserving : k < position' => k <= position
      BY <1>0, <2>1 DEF TypeOK
    <3>3. TypeOK' /\ CursorStored' /\ CursorCovers' /\ NothingSkipped'
      BY <2>0, <2>1, <3>1 DEF TypeOK, CursorStored, CursorCovers, NothingSkipped
    <3>4. EntryInWork'
      BY <2>0, <3>1, <3>2 DEF EntryInWork, Reported, NothingSkipped
    <3> QED BY <3>3, <3>4
  <2>2. CASE pc' = "wait" /\ UNCHANGED position
    BY <2>0, <2>2 DEF TypeOK, CursorStored, EntryInWork, CursorCovers, NothingSkipped
  <2> QED BY <1>6, <2>1, <2>2 DEF NextEntry
<1>7. CASE ProcessEntry
  <2>0. /\ pc = "entry" /\ pc' \in {"process", "wait"}
        /\ UNCHANGED <<entries, deserving, cursor, position, result, closePC, midway, first>>
    BY <1>7 DEF ProcessEntry
  <2>1. /\ sent \subseteq sent' /\ failed \subseteq failed'
        /\ sent' \subseteq deserving /\ failed' \subseteq failed \union {position}
        /\ position \in deserving => position \in sent' \union failed'
    BY <1>7 DEF ProcessEntry, TypeOK
  <2>2. TypeOK'
    <3>1. position \in 1 .. entries
      BY <1>0, <2>0 DEF EntryInWork
    <3> QED BY <2>0, <2>1, <3>1 DEF TypeOK
  <2>3. CursorStored' /\ EntryInWork' /\ CursorCovers'
    BY <2>0, <2>1 DEF CursorStored, EntryInWork, CursorCovers
  <2>4. NothingSkipped'
    <3>1. \A k \in deserving : k <= position => k < position \/ k = position
      BY <1>0 DEF TypeOK
    <3> QED BY <2>0, <2>1, <3>1 DEF NothingSkipped, EntryInWork, Reported
  <2> QED BY <2>2, <2>3, <2>4
<1>8. CASE CloseCancel \/ CloseJournal
  <2>1. /\ closePC' \in {"store", "closed"}
        /\ UNCHANGED <<entries, deserving, cursor, position, pc, result, sent, failed, midway, first>>
    BY <1>8 DEF CloseCancel, CloseJournal
  <2> QED BY <2>1 DEF TypeOK, CursorStored, EntryInWork, CursorCovers, NothingSkipped, Reported
<1>9. CASE CloseStore
  BY <1>9, StoreInv DEF CloseStore
<1>10. CASE UNCHANGED vars
  BY <1>10 DEF vars, TypeOK, CursorStored, EntryInWork, CursorCovers, NothingSkipped, Reported
<1> QED BY <1>1, <1>2, <1>3, <1>4, <1>5, <1>6, <1>7, <1>8, <1>9, <1>10 DEF Next, handleChannels, Close

\* The types of the reader's state; the handle and the stored cursor are within the
\* journal (JournalAlerts).
THEOREM TypeCorrect == Spec => []TypeOK
<1>1. JournalInv => TypeOK
  BY DEF JournalInv
<1> QED BY <1>1, InitInv, NextInv, PTL DEF Spec

\* Whenever the process crashes or is closed, and whatever fails to be read, neither
\* the cursor it goes on from nor the reader has passed an entry without its alert,
\* but for entries the journal could not read and the one Close came upon
\* (storeCurrentCursor, setupJournal, processJournal, Close).
THEOREM CrashesLoseNoAlert == Spec => []NothingPassedOver
<1>1. JournalInv => NothingPassedOver
  BY DEF JournalInv, NothingPassedOver
<1> QED BY <1>1, InitInv, NextInv, PTL DEF Spec

=============================================================================
