------------------------------ MODULE HttpGet ------------------------------
(***************************************************************************)
(* cmd_httpget (shell/mod.rs) on top of the TCP: connect, wait until the   *)
(* connection is established, send the request, print what arrives until   *)
(* ten seconds without an answer are over, close.  While it runs the shell *)
(* does nothing else; each turn of its two loops calls poll_and_dispatch   *)
(* and then looks at the connection.                                       *)
(***************************************************************************)
EXTENDS Tcp

CONSTANT Request      \* bytes of the request

ASSUME RequestAssumption == Request \in Nat \ {0}

VARIABLES
    hpc,      \* "idle", or where the command is
    slot,     \* idx
    late      \* the deadline of the loop has passed

httpVars == <<hpc, slot, late>>
allVars == <<vars, httpVars>>

HttpInit == Init /\ hpc = "idle" /\ slot \in Slots /\ late = FALSE

Go(from, to) == hpc = from /\ pc = "shell" /\ hpc' = to

\* The other commands, which the shell runs only at its prompt.
Commands ==
    /\ hpc = "idle"
    /\ ShellCalls
    /\ UNCHANGED httpVars

\* poll_and_dispatch, from the prompt or from a turn of a loop.
Dispatch ==
    \/ /\ hpc \in {"idle", "connecting", "receiving"}
       /\ BeginDispatch /\ UNCHANGED httpVars
    \/ \E i \in Slots, s \in Segments : receive(i, s) /\ UNCHANGED httpVars

EndDispatch(expired) ==
    /\ poll(expired)
    /\ hpc' = CASE hpc = "connecting" -> "connecting?"
                [] hpc = "receiving" -> "receiving?"
                [] OTHER -> hpc
    /\ UNCHANGED <<slot, late>>

cmd_httpget(i, port, peer) ==
    /\ Go("idle", "connecting")
    /\ connect(i, port, peer)
    /\ slot' = i /\ late' = FALSE

\* The loop asks for ESTABLISHED; a connection that is already half closed
\* waits for the deadline, which returns without closing it.
Connected ==
    /\ Go("connecting?", CASE conns[slot].state = "Established" -> "sending"
                           [] OTHER -> IF late THEN "idle" ELSE "connecting")
    /\ UNCHANGED <<vars, slot, late>>

CannotSend ==
    conns[slot].state \notin {"Established", "CloseWait"} \/ conns[slot].send_len = SendCap

\* A send that fails returns without closing.
SendRequest ==
    /\ late' = FALSE /\ UNCHANGED slot
    /\ Go("sending", IF CannotSend THEN "idle" ELSE "receiving")
    /\ IF CannotSend THEN UNCHANGED vars ELSE send(slot, Request)

\* Mutant: the loop does not look at its deadline.
ReceivedForever ==
    /\ UNCHANGED <<slot, late>>
    /\ \/ Go("receiving?", "receiving") /\ recv(slot, RecvCap)
       \/ /\ conns[slot].recv_buf = <<>> /\ Go("receiving?", "receiving")
          /\ UNCHANGED vars

\* Bytes are printed without a look at the deadline, whatever the state of
\* the connection; the deadline counts when there are none.
Received ==
    /\ UNCHANGED <<slot, late>>
    /\ \/ Go("receiving?", "receiving") /\ recv(slot, RecvCap)
       \/ /\ conns[slot].recv_buf = <<>>
          /\ Go("receiving?", IF late THEN "closing" ELSE "receiving")
          /\ UNCHANGED vars

HttpClose ==
    /\ Go("closing", "idle")
    /\ UNCHANGED <<slot, late>>
    /\ \/ close(slot)
       \/ conns[slot].state \notin {"Established", "CloseWait"} /\ UNCHANGED vars

Clock ==      \* timer::millis passes the deadline
    /\ hpc \in {"connecting", "connecting?", "receiving", "receiving?"} /\ ~late
    /\ late' = TRUE
    /\ UNCHANGED <<vars, hpc, slot>>

HttpStep == Connected \/ SendRequest \/ Received \/ HttpClose

HttpNext ==
    \/ Commands
    \/ \E i \in Slots, port \in Ports, peer \in Peers : cmd_httpget(i, port, peer)
    \/ Dispatch
    \/ \E expired \in SUBSET Slots : EndDispatch(expired)
    \/ HttpStep
    \/ Clock

\* Dispatches begin and end again and again, and every connection's timer runs
\* out at some later poll; the shell takes its steps and the clock runs.
HttpSpec ==
    /\ HttpInit /\ [][HttpNext]_allVars
    /\ WF_allVars(BeginDispatch /\ UNCHANGED httpVars)
    /\ \A i \in Slots :
          SF_allVars(\E expired \in SUBSET Slots : i \in expired /\ EndDispatch(expired))
    /\ WF_allVars(HttpStep) /\ WF_allVars(Clock)

-----------------------------------------------------------------------------
\* httpget returns to the prompt, whatever the peer answers, loses or repeats:
\* both loops meet their deadline once the peer's stream has been read.
HttpReturns == hpc # "idle" ~> hpc = "idle"
=============================================================================
