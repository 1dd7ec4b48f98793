---------------------------- MODULE JournalAlerts ----------------------------
(***************************************************************************)
(* journalalerts/journalalerts.go: a goroutine reads the systemd journal   *)
(* and sends an alert for each entry that deserves one; the position is    *)
(* stored from time to time and by Close, and a restarted process goes on  *)
(* from there.                                                             *)
(*                                                                         *)
(* Entries are numbered; a cursor is the number of an entry, 0 is the      *)
(* empty cursor and the position in front of the journal.  Which entries   *)
(* deserve an alert (the filters, priorities and unit names) is chosen     *)
(* when they are appended.                                                 *)
(***************************************************************************)
EXTENDS Integers

CONSTANTS
    MaxEntries,   \* bound: length of the journal
    MaxCrashes,   \* bound: how often the process dies
    MaxErrors     \* bound: how often reading the journal fails

ASSUME ConstantsAssumption ==
    /\ MaxEntries \in Nat
    /\ MaxCrashes \in Nat
    /\ MaxErrors \in Nat

Entries == 1 .. MaxEntries

VARIABLES
    entries,    \* number of entries in the journal
    deserving,  \* entries that deserve an alert
    position,   \* entry the journal handle is at
    cursor,     \* the cursor in cursorStorage
    pc,         \* where the goroutine handleChannels is; "down" without a process
    result,     \* what the last Wait returned
    appended,   \* entries were appended since the last Wait
    cancelSet,  \* journalCancelFunction is set
    cancelled,
    closePC,    \* where Close is
    journalClosed,
    sent,       \* entries whose alert was sent
    failed,     \* entries that could not be read
    midway,     \* history: entries that were being processed when Close stored
                \* the cursor
    first,      \* history: the first cursor that was stored
    crashes, errors

goVars == <<position, pc, result, cancelSet>>
closeVars == <<cancelled, closePC, journalClosed>>
histVars == <<midway, first>>

vars == <<entries, deserving, cursor, appended, goVars, closeVars, sent, failed, histVars,
          crashes, errors>>

Init ==
    /\ entries \in 0 .. MaxEntries
    /\ deserving = {}
    /\ position = 0
    /\ cursor = 0
    /\ pc = "down"
    /\ result = "append"
    /\ appended = FALSE
    /\ cancelSet = FALSE
    /\ cancelled = FALSE
    /\ closePC = "open"
    /\ journalClosed = FALSE
    /\ sent = {}
    /\ failed = {}
    /\ midway = {}
    /\ first = 0
    /\ crashes = 0
    /\ errors = 0

-----------------------------------------------------------------------------
\* The rest of the system writes to the journal.
AppendEntry ==
    /\ entries < MaxEntries
    /\ entries' = entries + 1
    /\ deserving' \in {deserving, deserving \union {entries + 1}}
    /\ appended' = TRUE
    /\ UNCHANGED <<cursor, goVars, closeVars, sent, failed, histVars, crashes, errors>>

\* The process dies, or ends after Close.
Crash ==
    /\ pc # "down"
    /\ crashes < MaxCrashes
    /\ crashes' = crashes + 1
    /\ pc' = "down"
    /\ UNCHANGED <<entries, deserving, cursor, appended, position, result, cancelSet, closeVars,
                   sent, failed, histVars, errors>>

\* Fault: the stored cursor is not used.
TailPosition == entries

StartPosition == IF cursor = 0 THEN entries ELSE cursor

(***************************************************************************)
(* New and setupJournal: without a cursor reading begins behind the last   *)
(* entry, else behind the entry of the cursor.                             *)
(***************************************************************************)
setupJournal ==
    /\ pc = "down"
    /\ position' = StartPosition
    /\ pc' = "started"
    /\ result' = "append"
    /\ appended' = FALSE
    /\ cancelSet' = FALSE
    /\ cancelled' = FALSE
    /\ closePC' = "open"
    /\ journalClosed' = FALSE
    /\ UNCHANGED <<entries, deserving, cursor, sent, failed, histVars, crashes, errors>>

(***************************************************************************)
(* handleChannels sets the cancel function first, and then loops.          *)
(***************************************************************************)
SetCancelFunction ==
    /\ pc = "started"
    /\ cancelSet' = TRUE
    /\ pc' = "select"
    /\ UNCHANGED <<entries, deserving, cursor, appended, position, result, closeVars, sent,
                   failed, histVars, crashes, errors>>

(***************************************************************************)
(* storeCurrentCursor fails while the handle is at no entry.               *)
(***************************************************************************)

\* Fault: the end of the journal is stored.
LastEntry == entries

CurrentCursor == position

StoreCursor ==
    /\ cursor' = IF CurrentCursor = 0 THEN cursor ELSE CurrentCursor
    /\ first' = IF first = 0 THEN cursor' ELSE first

storeCurrentCursor ==
    /\ pc = "select"
    /\ StoreCursor
    /\ UNCHANGED <<entries, deserving, appended, goVars, closeVars, sent, failed, midway,
                   crashes, errors>>

Done ==
    /\ pc = "select"
    /\ cancelled
    /\ pc' = "ended"
    /\ UNCHANGED <<entries, deserving, cursor, appended, position, result, cancelSet, closeVars,
                   sent, failed, histVars, crashes, errors>>

(***************************************************************************)
(* The default case: processJournal, if the last Wait saw a change, and    *)
(* Wait.                                                                   *)
(***************************************************************************)
Default ==
    /\ pc = "select"
    /\ ~ cancelled
    /\ pc' = IF result # "nop" THEN "process" ELSE "wait"
    /\ UNCHANGED <<entries, deserving, cursor, appended, position, result, cancelSet, closeVars,
                   sent, failed, histVars, crashes, errors>>

NextEntry ==
    /\ pc = "process"
    /\ \/ /\ position < entries
          /\ position' = position + 1
          /\ pc' = "entry"
          /\ UNCHANGED errors
       \/ /\ position = entries
          /\ pc' = "wait"
          /\ UNCHANGED <<position, errors>>
       \/ /\ errors < MaxErrors
          /\ errors' = errors + 1
          /\ pc' = "wait"
          /\ UNCHANGED position
    /\ UNCHANGED <<entries, deserving, cursor, appended, result, cancelSet, closeVars, sent,
                   failed, histVars, crashes>>

\* GetEntry and the alert; an error leaves the loop, the handle stays.
ProcessEntry ==
    /\ pc = "entry"
    /\ \/ /\ sent' = sent \union ({position} \intersect deserving)
          /\ pc' = "process"
          /\ UNCHANGED <<failed, errors>>
       \/ /\ errors < MaxErrors
          /\ errors' = errors + 1
          /\ failed' = failed \union {position}
          /\ pc' = "wait"
          /\ UNCHANGED sent
    /\ UNCHANGED <<entries, deserving, cursor, appended, position, result, cancelSet, closeVars,
                   histVars, crashes>>

WaitResult == IF appended THEN "append" ELSE "nop"

Wait ==
    /\ pc = "wait"
    /\ result' = WaitResult
    /\ appended' = FALSE
    /\ pc' = "select"
    /\ UNCHANGED <<entries, deserving, cursor, position, cancelSet, closeVars, sent, failed,
                   histVars, crashes, errors>>

handleChannels ==
    SetCancelFunction \/ Done \/ Default \/ NextEntry \/ ProcessEntry \/ Wait

-----------------------------------------------------------------------------
(***************************************************************************)
(* Close: cancel, store the cursor, close the handle; it does not wait for *)
(* the goroutine, and does nothing before that has set the function.       *)
(***************************************************************************)
CloseCancel ==
    /\ pc # "down" /\ closePC = "open"
    /\ \/ cancelSet /\ cancelled' = TRUE /\ closePC' = "store"
       \/ ~ cancelSet /\ closePC' = "closed" /\ UNCHANGED cancelled
    /\ UNCHANGED <<entries, deserving, cursor, appended, goVars, journalClosed, sent, failed,
                   histVars, crashes, errors>>

CloseStore ==
    /\ pc # "down" /\ closePC = "store"
    /\ StoreCursor
    /\ midway' = IF pc = "entry" THEN midway \union {position} ELSE midway
    /\ closePC' = "close"
    /\ UNCHANGED <<entries, deserving, appended, goVars, cancelled, journalClosed, sent, failed,
                   crashes, errors>>

CloseJournal ==
    /\ pc # "down" /\ closePC = "close"
    /\ journalClosed' = TRUE
    /\ closePC' = "closed"
    /\ UNCHANGED <<entries, deserving, cursor, appended, goVars, cancelled, sent, failed,
                   histVars, crashes, errors>>

Close == CloseCancel \/ CloseStore \/ CloseJournal

Next ==
    \/ AppendEntry \/ Crash \/ setupJournal
    \/ storeCurrentCursor \/ handleChannels
    \/ Close

Spec == Init /\ [][Next]_vars

(***************************************************************************)
(* The process is restarted after a crash, and its goroutine runs.         *)
(***************************************************************************)
FairSpec ==
    /\ Spec
    /\ WF_vars(setupJournal)
    /\ SF_vars(handleChannels)

-----------------------------------------------------------------------------
(***************************************************************************)
(* Properties                                                              *)
(***************************************************************************)

\* Types of the state; the handle is within the journal.
TypeOK ==
    /\ entries \in 0 .. MaxEntries
    /\ deserving \subseteq 1 .. entries
    /\ position \in 0 .. entries
    /\ cursor \in 0 .. entries
    /\ pc \in {"down", "started", "select", "process", "entry", "wait", "ended"}
    /\ result \in {"append", "nop"}
    /\ closePC \in {"open", "store", "close", "closed"}
    /\ sent \subseteq deserving
    /\ failed \subseteq 1 .. entries

\* The cursor does not pass an entry whose alert has not been sent, so a crash
\* loses nothing: of the entries behind the first stored cursor only those the
\* journal could not read, and at most the one in work when Close came, are
\* behind the cursor and not sent.
CursorCovers ==
    \A k \in deserving :
        first # 0 /\ first < k /\ k <= cursor => k \in sent \union failed \union midway

\* A restarted process does not skip: what it has not reported lies ahead of it.
NothingSkipped ==
    \A k \in deserving :
        /\ pc \notin {"down", "entry"}
        /\ first # 0 /\ first < k /\ k <= position
        => k \in sent \union failed \union midway

\* Both of the above: neither the stored cursor nor the position of the reader
\* is ahead of what was reported.
NothingPassedOver == CursorCovers /\ NothingSkipped

\* An entry that is appended once a cursor is stored is reported in the end, through
\* crashes and restarts, unless Close intervenes or reading the journal fails
\* (then it waits for the next entry to be appended).
EntryReported ==
    \A k \in Entries :
        k \in deserving /\ first # 0 /\ first < k
            ~> k \in sent \union midway \/ errors > 0 \/ closePC # "open"

\* "Close closes logging": the goroutine ends.
CloseEndsLogging == closePC = "closed" ~> pc \in {"ended", "down"}

=============================================================================
