------------------------------- MODULE MsgLog -------------------------------
(***************************************************************************)
(* What the store of chat messages promises: a message is stored at most   *)
(* once and answered at most once, its answer names the id it was stored   *)
(* under, and no two messages of a relation get one id. The promise about  *)
(* ids ends for the relations in suspect, whose counter has been lost.     *)
(* ChatStore implements this module.                                       *)
(***************************************************************************)
VARIABLES stored,    \* the messages in the table: [req, rel, id]
          answered,  \* the answers sent: [req, rel, id], id 0 for a refusal
          suspect    \* relations whose message counter cannot be trusted

vars == <<stored, answered, suspect>>

Init == stored = {} /\ answered = {} /\ suspect = {}

\* id belongs to no other request of relation rel.
Own(m) == \A other \in stored \cup answered :
            other.rel = m.rel /\ other.id = m.id => other.req = m.req

Store(m) ==
  /\ m.id # 0
  /\ \A other \in stored \cup answered : other.req # m.req
  /\ m.rel \in suspect \/ Own(m)
  /\ stored' = stored \cup {m}
  /\ UNCHANGED <<answered, suspect>>

Answer(m) ==
  /\ \A other \in answered : other.req # m.req
  /\ \A other \in stored : other.req = m.req => other = m
  /\ m.id = 0 \/ m.rel \in suspect \/ Own(m)
  /\ answered' = answered \cup {m}
  /\ UNCHANGED <<stored, suspect>>

Distrust ==
  /\ suspect \subseteq suspect'
  /\ UNCHANGED <<stored, answered>>

\* The step brings one message to one of the two sets.
Next ==
  \/ \E m \in stored' : Store(m)
  \/ \E m \in answered' : Answer(m)
  \/ Distrust

Spec == Init /\ [][Next]_vars
=============================================================================
