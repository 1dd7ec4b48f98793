--------------------------- MODULE ActionExecutor ---------------------------
(***************************************************************************)
(* What utils/action.Handler promises its callers, without its queues:     *)
(* actions submitted under the same identifier are executed one after the  *)
(* other in the order of submission, and at most maxConcurrentActions are  *)
(* executed at once (0 means no limit).                                    *)
(***************************************************************************)
EXTENDS Integers, FiniteSets

CONSTANTS
    IDs,                  \* action identifiers
    NoID,                 \* "not submitted yet"
    MaxActions,           \* bound: how many times Execute is called
    maxConcurrentActions  \* the argument of New; 0 is "no limit"

VARIABLES
    id,      \* id[a]: the identifier action a was submitted with
    status   \* status[a]: how far action a is

execVars == <<id, status>>

Actions == 1 .. MaxActions

InExecution == {a \in Actions : status[a] = "running"}

Init ==
    /\ id = [a \in Actions |-> NoID]
    /\ status = [a \in Actions |-> "new"]

(***************************************************************************)
(* Submissions are numbered in the order in which they take effect.        *)
(***************************************************************************)
Submit(a, i) ==
    /\ status[a] = "new"
    /\ \A b \in Actions : b < a => status[b] # "new"
    /\ id' = [id EXCEPT ![a] = i]
    /\ status' = [status EXCEPT ![a] = "pending"]

Start(a) ==
    /\ status[a] = "pending"
    /\ \A b \in Actions : b < a /\ id[b] = id[a] => status[b] = "done"
    /\ maxConcurrentActions # 0 => Cardinality(InExecution) < maxConcurrentActions
    /\ status' = [status EXCEPT ![a] = "running"]
    /\ UNCHANGED id

Complete(a) ==
    /\ status[a] = "running"
    /\ status' = [status EXCEPT ![a] = "done"]
    /\ UNCHANGED id

Next ==
    \E a \in Actions :
        \/ \E i \in IDs : Submit(a, i)
        \/ Start(a)
        \/ Complete(a)

Spec == Init /\ [][Next]_execVars

=============================================================================
