---------------------------- MODULE CallContract ----------------------------
(***************************************************************************)
(* What the RPC layer promises the two applications, without sequences,    *)
(* frames, queues, pumps or goroutines.  A call is made, asks, hears no    *)
(* more than was asked, answers, is given a verdict by its handler, gets   *)
(* no more than was answered and finishes once, with that verdict or with  *)
(* a reason of the library's own that has occurred.                        *)
(***************************************************************************)
EXTENDS Integers, Sequences

CONSTANTS
  Calls,
  Known,      \* calls to a method the server has a handler for
  None

VARIABLES
  made,       \* the caller has sent its Call frame
  asked,      \* how many requests the caller has sent
  heard,      \* the requests its handler has received
  answered,   \* how many responses the handler has sent
  received,   \* the responses the caller has received
  verdict,    \* the status the handler returned, None before that
  outcome,    \* what the invocation reported, None before that
  gone,       \* the caller's ctx is done
  cut,        \* the handler's stream ctx is done
  stopped,    \* the ctx given to Serve is done
  lost        \* the client's end of the connection is closed or closing

callerPart == <<made, asked, received, outcome>>
handlerPart == <<heard, answered, verdict>>
excuses == <<gone, cut, stopped, lost>>
contractVars == <<callerPart, handlerPart, excuses>>

\* The position of the last payload of q, 0 when there is none.
LastPos(q) == IF q = <<>> THEN 0 ELSE q[Len(q)][2]

Init ==
  /\ made = [c \in Calls |-> FALSE]
  /\ asked = [c \in Calls |-> 0]
  /\ heard = [c \in Calls |-> <<>>]
  /\ answered = [c \in Calls |-> 0]
  /\ received = [c \in Calls |-> <<>>]
  /\ verdict = [c \in Calls |-> None]
  /\ outcome = [c \in Calls |-> None]
  /\ gone = [c \in Calls |-> FALSE]
  /\ cut = [c \in Calls |-> FALSE]
  /\ stopped = FALSE
  /\ lost = FALSE

\* The call is made; its first request may ride with it.
Make(c) ==
  /\ ~made[c] /\ asked[c] = 0 /\ outcome[c] = None
  /\ made' = [made EXCEPT ![c] = TRUE]
  /\ asked' = asked \/ asked' = [asked EXCEPT ![c] = 1]
  /\ UNCHANGED <<received, outcome, handlerPart, excuses>>

Ask(c) ==
  /\ made[c] /\ outcome[c] = None
  /\ asked' = [asked EXCEPT ![c] = @ + 1]
  /\ UNCHANGED <<made, received, outcome, handlerPart, excuses>>

\* The handler of a call that was made and has not returned.
Handling(c) == c \in Known /\ made[c] /\ verdict[c] = None

\* The handler receives a later request of its own caller, the very next one
\* unless a ctx of the call is done.
Hear(c) ==
  /\ Handling(c)
  /\ \E n \in (LastPos(heard[c]) + 1) .. asked[c] :
       /\ heard' = [heard EXCEPT ![c] = Append(@, <<c, n>>)]
       /\ ~gone[c] /\ ~cut[c] => n = Len(heard[c]) + 1
  /\ UNCHANGED <<answered, verdict, callerPart, excuses>>

Answer(c) ==
  /\ Handling(c)
  /\ answered' = [answered EXCEPT ![c] = @ + 1]
  /\ UNCHANGED <<heard, verdict, callerPart, excuses>>

Decide(c) ==
  /\ Handling(c)
  /\ \E code \in {0, 2} : verdict' = [verdict EXCEPT ![c] = code]
  /\ UNCHANGED <<heard, answered, callerPart, excuses>>

\* The caller receives a later response of its own handler, the very next one
\* unless Serve is told to stop.
Receive(c) ==
  /\ made[c] /\ outcome[c] = None
  /\ \E n \in (LastPos(received[c]) + 1) .. answered[c] :
       /\ received' = [received EXCEPT ![c] = Append(@, <<c, n>>)]
       /\ ~stopped => n = Len(received[c]) + 1
  /\ UNCHANGED <<made, asked, outcome, handlerPart, excuses>>

\* The reasons for which an invocation may report code.
Justified(c, code) ==
  \/ code \in {0, 2} /\ verdict[c] = code
  \/ code = 4 /\ gone[c]
  \/ code = 12 /\ c \notin Known
  \/ code = 14 /\ lost

\* The invocation reports, once, a status and the first response or nothing.
Finish(c) ==
  /\ made[c] /\ outcome[c] = None
  /\ \E code \in {0, 2, 4, 12, 14} :
       /\ Justified(c, code)
       /\ \/ outcome' = [outcome EXCEPT ![c] = [code |-> code, data |-> None]]
          \/ /\ received[c] # <<>>
             /\ outcome' = [outcome EXCEPT ![c] = [code |-> code, data |-> received[c][1]]]
  /\ UNCHANGED <<made, asked, received, handlerPart, excuses>>

\* Contexts end and connections are lost; nothing undoes either.
Excuse ==
  /\ \A c \in Calls : (gone[c] => gone'[c]) /\ (cut[c] => cut'[c])
  /\ (stopped => stopped') /\ (lost => lost')
  /\ UNCHANGED <<callerPart, handlerPart>>

Next ==
  \/ Excuse
  \/ \E c \in Calls :
       \/ Make(c) \/ Ask(c) \/ Hear(c) \/ Answer(c) \/ Decide(c) \/ Receive(c) \/ Finish(c)

Spec == Init /\ [][Next]_contractVars
=============================================================================
