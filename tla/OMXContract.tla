---------------------------- MODULE OMXContract ----------------------------
(***************************************************************************)
(* What a component with an input and an output port promises its client:  *)
(* each buffer handed over comes back once, inputs in the order they were  *)
(* handed over; commands are answered one by one, and Flush, PortDisable   *)
(* and the change to Idle only after every buffer they claim came back.    *)
(* Between handing over and getting back nothing is said of the threads    *)
(* inside.  NXOMXVideoDecoder is shown to implement this.                  *)
(***************************************************************************)
EXTENDS Sequences

CONSTANTS InBufs, OutBufs, Commands, None

VARIABLES
  inputs,   \* the inputs not yet given back, in the order they came
  outputs,  \* the outputs not yet given back
  told,     \* the state the client was last told
  on,       \* whether the client may use the output port
  pending,  \* the command it awaits the answer to, or None
  due       \* what is to be given back before that answer

vars == <<inputs, outputs, told, on, pending, due>>

Init == /\ inputs = << >> /\ outputs = {}
        /\ told = "Loaded" /\ on = TRUE
        /\ pending = None /\ due = {}

\* The ports whose buffers a command claims.
Claims(c, p) == \/ c = <<"StateSet", "Idle">>
                \/ c[1] \in {"Flush", "PortDisable"} /\ c[2] \in {p, "ALL"}
Claimed(c) == {b \in InBufs : Claims(c, "in") /\ \E i \in DOMAIN inputs : b = inputs[i]}
              \cup {b \in outputs : Claims(c, "out")}

Send(c) == /\ pending = None
           /\ pending' = c
           /\ due' = Claimed(c)
           /\ UNCHANGED <<inputs, outputs, told, on>>

\* Buffers are handed over in Executing and Pause, until a change of state is
\* asked for.
Feeding == told \in {"Executing", "Pause"} /\ (pending = None \/ pending[1] # "StateSet")

Empty(b) == /\ Feeding
            /\ \A i \in DOMAIN inputs : inputs[i] # b
            /\ inputs' = Append(inputs, b)
            /\ UNCHANGED <<outputs, told, on, pending, due>>

Fill(b) == /\ Feeding /\ on /\ b \notin outputs
           /\ outputs' = outputs \cup {b}
           /\ UNCHANGED <<inputs, told, on, pending, due>>

\* The oldest input comes back, maybe with an output, and maybe with the event
\* that the output port has to be set up anew.
EmptyBufferDone ==
  /\ inputs # << >> /\ inputs' = Tail(inputs)
  /\ \E filled \in {{}} \cup {{b} : b \in outputs} :
       outputs' = outputs \ filled /\ due' = due \ ({Head(inputs)} \cup filled)
  /\ on' \in {on, FALSE}
  /\ UNCHANGED <<told, pending>>

FillBufferDone(b) ==
  /\ b \in outputs
  /\ outputs' = outputs \ {b} /\ due' = due \ {b}
  /\ UNCHANGED <<inputs, told, on, pending>>

Answer ==
  /\ pending # None /\ due = {}
  /\ pending' = None
  /\ told' = IF pending[1] = "StateSet" THEN pending[2] ELSE told
  /\ on' = CASE pending[1] = "PortDisable" -> FALSE
             [] pending[1] = "PortEnable"  -> TRUE
             [] OTHER                      -> on
  /\ UNCHANGED <<inputs, outputs, due>>

Next == \/ \E c \in Commands : Send(c)
        \/ \E b \in InBufs : Empty(b)
        \/ \E b \in OutBufs : Fill(b) \/ FillBufferDone(b)
        \/ EmptyBufferDone \/ Answer

Spec == Init /\ [][Next]_vars
=============================================================================
