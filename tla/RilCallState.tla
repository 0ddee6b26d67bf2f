---------------------------- MODULE RilCallState ----------------------------
(***************************************************************************)
(* The call state of LGEInfineon.java: which of two requests to the modem  *)
(* hangs up a waiting call depends on the highest state the phone has had, *)
(* told by notifications that lag behind the calls.                        *)
(***************************************************************************)
EXTENDS Integers, Sequences

CONSTANTS Calls,      \* calls of the phone
          MaxChanges  \* bound: changes of calls in one behaviour

IDLE == 0
RINGING == 1
OFFHOOK == 2

VARIABLES
    call,       \* call[c]: "none", "ringing" or "active"
    queue,      \* states of the phone still to be told, oldest first
    mCallState,
    highest,    \* highest state of the phone since it was last idle
    request,    \* the last request of hangupWaitingOrBackground
    changes

vars == <<call, queue, mCallState, highest, request, changes>>

Some(cs, s) == \E c \in Calls : cs[c] = s

(* The state the phone tells: a ringing call goes before an active one.    *)
PhoneState(cs) ==
    IF Some(cs, "ringing") THEN RINGING ELSE IF Some(cs, "active") THEN OFFHOOK ELSE IDLE

Init ==
    /\ call = [c \in Calls |-> "none"]
    /\ queue = <<>> /\ mCallState = IDLE /\ highest = IDLE
    /\ request = "none" /\ changes = 0

(* A call rings, is dialled, answered or ends.  One call rings at a time,  *)
(* and none is dialled meanwhile.                                          *)
Change(c, s) ==
    LET after == [call EXCEPT ![c] = s]
        state == PhoneState(after)
    IN /\ changes < MaxChanges
       /\ \/ call[c] = "none" /\ s \in {"ringing", "active"} /\ ~Some(call, "ringing")
          \/ call[c] = "ringing" /\ s \in {"active", "none"}
          \/ call[c] = "active" /\ s = "none"
       /\ call' = after
       /\ queue' = IF state = PhoneState(call) THEN queue ELSE Append(queue, state)
       /\ highest' = IF state = IDLE \/ state > highest THEN state ELSE highest
       /\ changes' = changes + 1
       /\ UNCHANGED <<mCallState, request>>

(* Mutant: the last state wins.                                            *)
HigherAny(state) == state # mCallState

(* "Higher state wins, unless going back to idle"                          *)
Higher(state) == state = IDLE \/ state > mCallState

onCallStateChanged ==
    /\ queue # <<>>
    /\ queue' = Tail(queue)
    /\ mCallState' = IF Higher(Head(queue)) THEN Head(queue) ELSE mCallState
    /\ UNCHANGED <<call, highest, request, changes>>

(* Mutant: a ringing call counts as one that is off the hook.              *)
RequestRinging ==
    IF mCallState # IDLE THEN "HANGUP_WAITING_OR_BACKGROUND" ELSE "HANG_UP_CALL"

Request ==
    IF mCallState = OFFHOOK THEN "HANGUP_WAITING_OR_BACKGROUND" ELSE "HANG_UP_CALL"

(* The user rejects a ringing call.                                        *)
hangupWaitingOrBackground ==
    /\ Some(call, "ringing")
    /\ request' = Request
    /\ UNCHANGED <<call, queue, mCallState, highest, changes>>

Next ==
    \/ \E c \in Calls, s \in {"none", "ringing", "active"} : Change(c, s)
    \/ onCallStateChanged \/ hangupWaitingOrBackground

Spec == Init /\ [][Next]_vars

-----------------------------------------------------------------------------
(* Properties.                                                             *)

States == {IDLE, RINGING, OFFHOOK}

TypeOK ==
    /\ call \in [Calls -> {"none", "ringing", "active"}]
    /\ queue \in Seq(States)
    /\ mCallState \in States /\ highest \in States
    /\ request \in {"none", "HANGUP_WAITING_OR_BACKGROUND", "HANG_UP_CALL"}
    /\ changes \in Nat

(* "Higher state wins, unless going back to idle": once every change has   *)
(* been told, the call state is the highest the phone has had since it was *)
(* idle, in whatever order calls rang, were answered and ended.            *)
HighestKept == queue = <<>> => mCallState = highest

(* Rejecting a call that waits beside an active one, when every change has *)
(* been told, ends the waiting call and not the active one; a call that    *)
(* rings alone on an idle phone is hung up as such.                        *)
Rejected ==
    request' # request /\ queue = <<>> =>
      /\ Some(call, "active") => request' = "HANGUP_WAITING_OR_BACKGROUND"
      /\ highest = RINGING => request' = "HANG_UP_CALL"
WaitingRejected == [][Rejected]_vars
=============================================================================
