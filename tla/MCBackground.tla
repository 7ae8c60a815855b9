---------------------------- MODULE MCBackground ----------------------------
(* Instances of the two models of what Unison does unasked: a mailbox synced *)
(* by ConnectorSync, and a watch evaluated by Initiative.  They share nothing; *)
(* a behaviour is about one of them.                                        *)
EXTENDS ConnectorSync, Initiative, TLC

CONSTANTS x1, x2, y1, y2,
          Subjects             \* "connector", "initiative"

Two == {x1, x2}
Others == {y1, y2}

\* One watch, whose scheduled item is due at tick 3 whatever its state.
ThirdTick == [w \in {1} |-> [s \in Others |-> 3]]

Interchangeable == Permutations(Two) \cup Permutations(Others)

(* History: whether the sessions of the connector have kept out of one        *)
(* another's way so far, each beginning only when no other was at work; of the *)
(* initiative, whether the inbox has counted and asked only while no evaluation *)
(* stood between its count and its receipt, and the other way round.          *)
VARIABLES alone, subject

Busy == {s \in Sessions : session[s].at # "idle"}

\* What a behaviour is not about begins in one state.
MCInit ==
  /\ Init /\ InitiativeInit /\ alone = TRUE /\ subject \in Subjects
  /\ subject # "connector" => grants = {} /\ token
  /\ subject # "initiative" => memory = [w \in {1} |-> y1]
MCNext ==
  /\ UNCHANGED subject
  /\ \/ /\ subject = "connector" /\ Next
        /\ alone' = (alone /\ (session' = session \/ \A s \in Busy : session'[s] # session[s]))
        /\ UNCHANGED initiativeVars
     \/ /\ subject = "initiative" /\ InitiativeNext
        /\ alone' = (alone /\ ~(inbox'.at = "counted" /\ \E p \in Workers : worker'[p].at = "weighed"))
        /\ UNCHANGED vars
     \* The clock of the initiative has a last tick; a connector can always go on.
     \/ subject = "initiative" /\ UNCHANGED <<vars, initiativeVars, alone>>
MCSpec == MCInit /\ [][MCNext]_<<vars, initiativeVars, alone, subject>>

TypesOK == TypeOK /\ InitiativeTypeOK

\* When nothing overlaps, a disconnected connector holds no granted capability, one
\* shown as failed shows why, and what is granted and what the status says agree.
ConsistentAlone ==
  subject = "connector" /\ alone => DisconnectRevokesGrants /\ FailureNamesReason /\ StatusFollowsGrants

\* The daily budget is kept while the inbox and the initiative do not count at the
\* same time; the initiative's own share of it is kept whatever happens.
BudgetApart == WithinScope /\ (subject = "initiative" /\ alone => WithinBudget)
=============================================================================
