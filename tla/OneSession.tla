------------------------------ MODULE OneSession ------------------------------
(***************************************************************************)
(* The engine a text service believes it has: its own, with one panel and  *)
(* one queue of commits, which carries out each call once at most and      *)
(* answers it, or fails it.  An engine may be lost at any time, and the    *)
(* text service finds out: the call that is on, or the next one, fails,    *)
(* and no call is ever answered by an engine that replaced the one before  *)
(* it unnoticed.  How the engine is reached, through a pipe to a process   *)
(* that others use too, is the business of ImePipe.                        *)
(***************************************************************************)
EXTENDS Naturals, Sequences

CONSTANTS
    Clients,  \* the text services
    NoPanel,  \* nothing is being typed
    NoReply   \* a call has not been carried out

VARIABLES
    call,     \* client: the call it makes, or "none"
    engine,   \* client: panel and commit queue of its engine
    lost,     \* the clients that have lost their engine unnoticed
    answer,   \* client: what the engine answers to the call
    shown,    \* client: the panel it shows
    given,    \* client: the commits it was given
    made      \* commits made so far

vars == <<call, engine, lost, answer, shown, given, made>>

NoCommit == <<>>
NewEngine == [panel |-> NoPanel, queue |-> <<>>]

Init ==
    /\ call = [c \in Clients |-> "none"]
    /\ engine = [c \in Clients |-> NewEngine]
    /\ lost = {}
    /\ answer = [c \in Clients |-> NoReply]
    /\ shown = [c \in Clients |-> NoPanel]
    /\ given = [c \in Clients |-> <<>>]
    /\ made = 0

Call(c, o) ==
    /\ call[c] = "none"
    /\ call' = [call EXCEPT ![c] = o]
    /\ UNCHANGED <<engine, lost, answer, shown, given, made>>

(* A call is carried out.  The answer may be lost on its way.              *)
CarryOut(c, panel, queue, drained) ==
    /\ answer[c] = NoReply /\ c \notin lost
    /\ engine' = [engine EXCEPT ![c] = [panel |-> panel, queue |-> queue]]
    /\ \E usable \in BOOLEAN :
          answer' = [answer EXCEPT ![c] =
              [usable |-> usable, panel |-> panel, drained |-> drained]]
    /\ UNCHANGED <<call, lost, shown, given>>

Key(c) ==
    /\ call[c] = "Key"
    /\ \E panel \in {NoPanel, c, engine[c].panel} :
          \/ /\ CarryOut(c, panel, engine[c].queue, NoCommit)
             /\ UNCHANGED made
          \/ /\ CarryOut(c, panel,
                         Append(engine[c].queue, [by |-> c, n |-> made + 1]),
                         NoCommit)
             /\ made' = made + 1

Clear(c) ==
    /\ call[c] = "Clear"
    /\ CarryOut(c, NoPanel, <<>>, NoCommit)
    /\ UNCHANGED made

PopCommit(c) ==
    /\ call[c] = "ServerPopCommit"
    /\ \/ /\ engine[c].queue = <<>>
          /\ CarryOut(c, engine[c].panel, <<>>, NoCommit)
       \/ /\ engine[c].queue # <<>>
          /\ CarryOut(c, engine[c].panel, Tail(engine[c].queue),
                      Head(engine[c].queue))
    /\ UNCHANGED made

Return(c) ==
    /\ call[c] # "none" /\ answer[c] # NoReply
    /\ answer[c].usable
    /\ call' = [call EXCEPT ![c] = "none"]
    /\ answer' = [answer EXCEPT ![c] = NoReply]
    /\ shown' = [shown EXCEPT ![c] = answer[c].panel]
    /\ given' = [given EXCEPT ![c] = IF answer[c].drained = NoCommit THEN @
                                     ELSE Append(@, answer[c].drained)]
    /\ UNCHANGED <<engine, lost, made>>

(* A failed call costs the engine; what the text service shows stays.      *)
Fail(c) ==
    /\ call[c] # "none"
    /\ call' = [call EXCEPT ![c] = "none"]
    /\ answer' = [answer EXCEPT ![c] = NoReply]
    /\ engine' = [engine EXCEPT ![c] = NewEngine]
    /\ lost' = lost \ {c}
    /\ UNCHANGED <<shown, given, made>>

Lose(c) ==
    /\ engine' = [engine EXCEPT ![c] = NewEngine]
    /\ lost' = lost \cup {c}
    /\ UNCHANGED <<call, answer, shown, given, made>>

(* The text service ends, and another one takes its place.                 *)
End(c) ==
    /\ call' = [call EXCEPT ![c] = "none"]
    /\ answer' = [answer EXCEPT ![c] = NoReply]
    /\ engine' = [engine EXCEPT ![c] = NewEngine]
    /\ lost' = lost \ {c}
    /\ shown' = [shown EXCEPT ![c] = NoPanel]
    /\ UNCHANGED <<given, made>>

Next ==
    \E c \in Clients :
        \/ \E o \in {"Key", "Clear", "ServerPopCommit"} : Call(c, o)
        \/ Key(c) \/ Clear(c) \/ PopCommit(c)
        \/ Return(c) \/ Fail(c)
        \/ Lose(c) \/ End(c)

Spec == Init /\ [][Next]_vars
===============================================================================
