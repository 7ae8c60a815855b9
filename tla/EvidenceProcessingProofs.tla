----------------------- MODULE EvidenceProcessingProofs -----------------------
(***************************************************************************)
(* Proofs about EvidenceProcessing, for every set of sources and workers    *)
(* and every attempt limit, with COMMITs that outlive their processes: the  *)
(* queue underneath is JobQueue, the ledger goes forward, and what is done  *)
(* is done once and to the end.                                             *)
(***************************************************************************)
EXTENDS MCEvidence, JobQueueProofs, FiniteSetTheorems

LedgerStatuses == {"NONE", "PENDING", "EXTRACTED", "CANONICALIZED", "GOVERNED", "SUCCEEDED", "NEEDS_REVIEW"}
Source == [status : LedgerStatuses, unresolved : Nat, asserts : BOOLEAN, run : {"none", "SUCCEEDED"},
           unknowns : {0, 1}, open : Nat, belief : BeliefStatuses, times : [Effects -> Nat]]

-----------------------------------------------------------------------------
(* The ledger.                                                             *)

LEMMA LedgerIs ==
  /\ Ledger[1] = "NONE" /\ Ledger[2] = "PENDING" /\ Ledger[3] = "EXTRACTED"
  /\ Ledger[4] = "CANONICALIZED" /\ Ledger[5] = "GOVERNED"
  /\ Ledger[6] = "SUCCEEDED" /\ Ledger[7] = "NEEDS_REVIEW"
  BY DEF Ledger

LEMMA StatusesAre == {Ledger[n] : n \in 1..7} = LedgerStatuses
<1>1. 1..7 = {1, 2, 3, 4, 5, 6, 7}
  OBVIOUS
<1> QED
  BY <1>1, LedgerIs DEF LedgerStatuses

LEMMA Ranks ==
  /\ Rank("NONE") = 1 /\ Rank("PENDING") = 2 /\ Rank("EXTRACTED") = 3
  /\ Rank("CANONICALIZED") = 4 /\ Rank("GOVERNED") = 5
  /\ Rank("SUCCEEDED") = 6 /\ Rank("NEEDS_REVIEW") = 6
<1>1. \A status \in LedgerStatuses \ Final, m \in 1..5 :
        Ledger[m] = status => Rank(status) = m
  <2> SUFFICES ASSUME NEW status \in LedgerStatuses \ Final, NEW m \in 1..5, Ledger[m] = status
               PROVE  Rank(status) = m
    OBVIOUS
  <2>1. \A n \in 1..5 : Ledger[n] = status => n = m
    BY LedgerIs
  <2>2. Rank(status) = CHOOSE n \in 1..5 : Ledger[n] = status
    BY DEF Rank
  <2> QED
    BY <2>1, <2>2
<1>2. \A status \in Final : Rank(status) = 6
  BY DEF Rank
<1> QED
  BY <1>1, <1>2, LedgerIs DEF LedgerStatuses, Final

LEMMA SourceType == PTypeOK => src \in [Jobs -> Source]
  BY StatusesAre DEF PTypeOK, Source

-----------------------------------------------------------------------------
(* The steps of a handler.                                                 *)

LEMMA OutcomesOf ==
  ASSUME NEW rec
  PROVE  /\ Outcomes("extract", rec) =
              {<<rec, Go(IF rec.run = "SUCCEEDED" THEN "mark" ELSE "claims", 0, FALSE)>>}
         /\ Outcomes("claims", rec) = Claims(rec)
         /\ Outcomes("mark", rec) = MarkExtracted(rec)
         /\ Outcomes("canonicalize", rec) = Canonicalize(rec)
         /\ Outcomes("propose", rec) = Propose(rec)
         /\ Outcomes("validate", rec) = Validate(rec)
         /\ Outcomes("decide", rec) = Decide(rec)
         /\ Outcomes("apply", rec) = Apply(rec)
         /\ Outcomes("govern", rec) = {<<[rec EXCEPT !.status = "GOVERNED"], Go("look", 4, FALSE)>>}
         /\ Outcomes("project", rec) = Project(rec)
         /\ Outcomes("projected", rec) = {<<rec, Go("unlock", 0, TRUE)>>}
         /\ Outcomes("clear", rec) = {<<rec, Go("unlock", 0, TRUE)>>}
  BY DEF Outcomes

\* The step that begins a stage begins it with the status it was chosen for.
LEMMA FirstSteps ==
  ASSUME NEW rec, rec.status \in {"PENDING", "EXTRACTED", "CANONICALIZED", "GOVERNED"}
  PROVE  FirstStep(rec) \in Staged /\ Begins(FirstStep(rec), rec)
<1>1. CASE rec.status = "PENDING"
  BY <1>1 DEF FirstStep, Staged, Steps, Begins
<1>2. CASE rec.status = "EXTRACTED"
  BY <1>2 DEF FirstStep, Staged, Steps, Begins
<1>3. CASE rec.status = "CANONICALIZED"
  BY <1>3 DEF FirstStep, Staged, Steps, Begins
<1>4. CASE rec.status = "GOVERNED"
  BY <1>4 DEF FirstStep, Staged, Steps, Begins
<1> QED
  BY <1>1, <1>2, <1>3, <1>4

\* What one transaction does to the row it finds.
Carried(at, rec, o) ==
  /\ o[1] \in Source /\ Keyed(o[1]) /\ o[2] \in Handler /\ o[2].at # "out"
  /\ at \in {"extract", "projected", "clear"} => o[1] = rec
  /\ \/ o[1].status = rec.status
     \/ /\ rec.status \notin Final /\ Rank(o[1].status) = Rank(rec.status) + 1
        /\ Begins(at, rec) /\ Overtaken(at, o[1])
  /\ o[2].at \in Staged =>
       /\ Begins(at, rec) => Begins(o[2].at, o[1])
       /\ Overtaken(at, rec) => Overtaken(o[2].at, o[1])
  /\ o[2].at = "look" => o[2].stage \in 1..4 /\ o[2].stage < Rank(o[1].status)
  /\ o[2].ok \/ o[2].at \in {"projected", "clear"} => o[1].status \in Final

Ready(at, rec) == /\ rec \in Source /\ Keyed(rec)
                  /\ at \in Staged => Begins(at, rec) \/ Overtaken(at, rec)

LEMMA Went ==
  ASSUME NEW at \in Steps \cup {"lock", "look", "failed", "unlock", "ended"}, NEW stage \in 0..4, NEW ok \in BOOLEAN
  PROVE  /\ Go(at, stage, ok) \in Handler /\ Go(at, stage, ok).at = at /\ Go(at, stage, ok).at # "out"
         /\ Go(at, stage, ok).stage = stage /\ Go(at, stage, ok).ok = ok
  BY DEF Go, Handler, Steps

\* The same of a row and a place that are given one by one.
LEMMA CarriedBy ==
  ASSUME NEW at, NEW rec, NEW after \in Source,
         NEW to \in Steps \cup {"lock", "look", "failed", "unlock", "ended"}, NEW stage \in 0..4, NEW ok \in BOOLEAN,
         Keyed(after),
         at \in {"extract", "projected", "clear"} => after = rec,
         \/ after.status = rec.status
         \/ /\ rec.status \notin Final /\ Rank(after.status) = Rank(rec.status) + 1
            /\ Begins(at, rec) /\ Overtaken(at, after),
         to \in Staged => /\ Begins(at, rec) => Begins(to, after)
                          /\ Overtaken(at, rec) => Overtaken(to, after),
         to = "look" => stage \in 1..4 /\ stage < Rank(after.status),
         ok \/ to \in {"projected", "clear"} => after.status \in Final
  PROVE  Carried(at, rec, <<after, Go(to, stage, ok)>>)
<1> DEFINE o == <<after, Go(to, stage, ok)>>
<1>1. o[1] = after
  OBVIOUS
<1>2. /\ o[2] \in Handler /\ o[2].at = to /\ o[2].at # "out"
      /\ o[2].stage = stage /\ o[2].ok = ok
  BY Went
<1> HIDE DEF o
<1>3. Carried(at, rec, o)
  BY <1>1, <1>2 DEF Carried
<1> QED
  BY <1>3 DEF o

LEMMA StepExtract ==
  ASSUME NEW rec, Ready("extract", rec), NEW o \in Outcomes("extract", rec)
  PROVE  Carried("extract", rec, o)
<1>1. o \in {<<rec, Go(IF rec.run = "SUCCEEDED" THEN "mark" ELSE "claims", 0, FALSE)>>}
  BY OutcomesOf
<1>2. PICK to \in {"mark", "claims"} : o = <<rec, Go(to, 0, FALSE)>>
  BY <1>1
<1>3. /\ to \in Steps /\ 0 \in 0..4 /\ FALSE \in BOOLEAN /\ rec \in Source /\ Keyed(rec)
      /\ Begins("extract", rec) => Begins(to, rec)
      /\ Overtaken("extract", rec) => Overtaken(to, rec)
      /\ to # "look"
  BY <1>2 DEF Ready, Steps, Begins, Overtaken
<1>4. Carried("extract", rec, <<rec, Go(to, 0, FALSE)>>)
  BY <1>3, CarriedBy
<1> QED
  BY <1>2, <1>4

LEMMA TimesOf ==
  ASSUME NEW rec \in Source, NEW e \in Effects
  PROVE  /\ Once(rec, e) \in [Effects -> Nat] /\ Once(rec, e)[e] = rec.times[e] + 1
         /\ \A f \in Effects \ {e} : Once(rec, e)[f] = rec.times[f]
  BY DEF Once, Source

LEMMA StepClaims ==
  ASSUME NEW rec, Ready("claims", rec), NEW o \in Outcomes("claims", rec)
  PROVE  Carried("claims", rec, o)
<1>1. o \in Claims(rec)
  BY OutcomesOf
<1> DEFINE after(u) == [rec EXCEPT !.run = "SUCCEEDED", !.unknowns = u, !.open = u, !.times = Once(rec, "claims")]
<1>2. rec.run # "SUCCEEDED" /\ \E u \in {0, 1} : o = <<after(u), Go("mark", 0, FALSE)>>
  BY <1>1 DEF Claims
<1>3. PICK u \in {0, 1} : o = <<after(u), Go("mark", 0, FALSE)>>
  BY <1>2
<1>4. rec \in Source /\ Keyed(rec) /\ rec.run = "none"
  BY <1>2 DEF Ready, Source
<1>5. /\ after(u) \in Source /\ after(u).status = rec.status /\ after(u).run = "SUCCEEDED"
      /\ after(u).belief = rec.belief /\ after(u).times = Once(rec, "claims")
  <2>1. Once(rec, "claims") \in [Effects -> Nat] /\ u \in {0, 1} /\ u \in Nat
    BY <1>3, <1>4, TimesOf DEF Effects
  <2> QED
    BY <1>4, <2>1 DEF Source
<1> HIDE DEF after
<1>6. Keyed(after(u))
  <2>1. Once(rec, "claims")["claims"] = 1 /\ Once(rec, "claims")["apply"] = rec.times["apply"]
    BY <1>4, TimesOf DEF Keyed, Effects
  <2> QED
    BY <1>4, <1>5, <2>1 DEF Keyed
<1>7. /\ Begins("claims", rec) => Begins("mark", after(u))
      /\ Overtaken("claims", rec) => Overtaken("mark", after(u))
  BY <1>5 DEF Begins, Overtaken
<1>8. "mark" \in Steps /\ 0 \in 0..4 /\ FALSE \in BOOLEAN
  BY DEF Steps
<1>9. Carried("claims", rec, <<after(u), Go("mark", 0, FALSE)>>)
  BY <1>5, <1>6, <1>7, <1>8, CarriedBy
<1> QED
  BY <1>3, <1>9

LEMMA StepMark ==
  ASSUME NEW rec, Ready("mark", rec), NEW o \in Outcomes("mark", rec)
  PROVE  Carried("mark", rec, o)
<1> DEFINE after == [rec EXCEPT !.status = "EXTRACTED", !.unresolved = rec.unknowns]
<1>1. o = <<after, Go("look", 2, FALSE)>>
  BY OutcomesOf DEF MarkExtracted
<1>2. rec \in Source /\ Keyed(rec) /\ (Begins("mark", rec) \/ Overtaken("mark", rec))
  BY DEF Ready, Staged, Steps
<1>3. /\ after \in Source /\ after.status = "EXTRACTED" /\ after.run = rec.run
      /\ after.belief = rec.belief /\ after.times = rec.times
  <2>1. rec.unknowns \in Nat /\ "EXTRACTED" \in LedgerStatuses
    BY <1>2 DEF Source, LedgerStatuses
  <2> QED
    BY <1>2, <2>1 DEF Source
<1> HIDE DEF after
<1>4. Keyed(after)
  BY <1>2, <1>3 DEF Keyed
<1>5. \/ after.status = rec.status
      \/ /\ rec.status \notin Final /\ Rank(after.status) = Rank(rec.status) + 1
         /\ Begins("mark", rec) /\ Overtaken("mark", after)
  BY <1>2, <1>3, Ranks DEF Begins, Overtaken, Final
<1>6. "look" \notin Staged /\ 2 \in 1..4 /\ 2 < Rank(after.status) /\ 2 \in 0..4 /\ FALSE \in BOOLEAN
  BY <1>3, Ranks DEF Staged, Steps
<1>7. Carried("mark", rec, <<after, Go("look", 2, FALSE)>>)
  BY <1>3, <1>4, <1>5, <1>6, CarriedBy
<1> QED
  BY <1>1, <1>7

LEMMA StepCanonicalize ==
  ASSUME NEW rec, Ready("canonicalize", rec), NEW o \in Outcomes("canonicalize", rec)
  PROVE  Carried("canonicalize", rec, o)
<1> DEFINE after(a, u) == [rec EXCEPT !.status = "CANONICALIZED", !.asserts = a, !.unresolved = rec.unresolved + u,
                             !.open = rec.unknowns + u, !.times = Once(rec, "canonicalize")]
<1>1. \E a \in BOOLEAN, u \in {0, 1} : o = <<after(a, u), Go("look", 3, FALSE)>>
  <2> DEFINE booleans == BOOLEAN
             next == Go("look", 3, FALSE)
  <2>1. o \in Canonicalize(rec)
    BY OutcomesOf
  <2>2. Canonicalize(rec) = {<<after(a, u), next>> : a \in booleans, u \in {0, 1}}
    BY DEF Canonicalize
  <2>3. \E a \in booleans, u \in {0, 1} : o = <<after(a, u), next>>
    <3> HIDE DEF after, booleans, next
    <3> QED
      BY <2>1, <2>2
  <2> QED
    BY <2>3
<1>2. PICK a \in BOOLEAN, u \in {0, 1} : o = <<after(a, u), Go("look", 3, FALSE)>>
  BY <1>1
<1>3. rec \in Source /\ Keyed(rec) /\ (Begins("canonicalize", rec) \/ Overtaken("canonicalize", rec))
  BY DEF Ready, Staged, Steps
<1>4. /\ after(a, u) \in Source /\ after(a, u).status = "CANONICALIZED" /\ after(a, u).run = rec.run
      /\ after(a, u).belief = rec.belief /\ after(a, u).times = Once(rec, "canonicalize")
  <2>1. /\ Once(rec, "canonicalize") \in [Effects -> Nat] /\ "CANONICALIZED" \in LedgerStatuses
    BY <1>3, TimesOf DEF Effects, LedgerStatuses
  <2>2. /\ a \in BOOLEAN /\ rec.unresolved + u \in Nat /\ rec.unknowns + u \in Nat
    BY <1>2, <1>3 DEF Source
  <2> QED
    BY <1>3, <2>1, <2>2 DEF Source
<1> HIDE DEF after
<1>5. Keyed(after(a, u))
  <2>1. /\ Once(rec, "canonicalize")["claims"] = rec.times["claims"]
        /\ Once(rec, "canonicalize")["apply"] = rec.times["apply"]
    BY <1>3, TimesOf DEF Effects
  <2> QED
    BY <1>3, <1>4, <2>1 DEF Keyed
<1>6. \/ after(a, u).status = rec.status
      \/ /\ rec.status \notin Final /\ Rank(after(a, u).status) = Rank(rec.status) + 1
         /\ Begins("canonicalize", rec) /\ Overtaken("canonicalize", after(a, u))
  BY <1>3, <1>4, Ranks DEF Begins, Overtaken, Final
<1>7. "look" \notin Staged /\ 3 \in 1..4 /\ 3 < Rank(after(a, u).status) /\ 3 \in 0..4 /\ FALSE \in BOOLEAN
  BY <1>4, Ranks DEF Staged, Steps
<1>8. Carried("canonicalize", rec, <<after(a, u), Go("look", 3, FALSE)>>)
  BY <1>4, <1>5, <1>6, <1>7, CarriedBy
<1> QED
  BY <1>2, <1>8

\* The steps of the belief transaction move its status and nothing else of the row,
\* and apply it once.
LEMMA BeliefMoves ==
  ASSUME NEW rec \in Source, Keyed(rec), NEW belief \in BeliefStatuses, rec.belief # "COMMITTED", belief # "COMMITTED"
  PROVE  LET after == [rec EXCEPT !.belief = belief]
         IN  after \in Source /\ Keyed(after) /\ after.status = rec.status
<1> DEFINE after == [rec EXCEPT !.belief = belief]
<1>1. /\ after \in Source /\ after.status = rec.status /\ after.run = rec.run
      /\ after.belief = belief /\ after.times = rec.times
  BY DEF Source
<1> HIDE DEF after
<1>2. Keyed(after)
  BY <1>1 DEF Keyed
<1> QED
  BY <1>1, <1>2 DEF after

LEMMA SettledKeys ==
  ASSUME NEW rec \in Source, Keyed(rec), NEW at \in {"propose", "validate", "decide", "apply"},
         NEW to \in {"validate", "decide", "apply", "govern", "failed"}, NEW after \in Source,
         Keyed(after), after.status = rec.status
  PROVE  Carried(at, rec, <<after, Go(to, 0, FALSE)>>)
<1>1. to \in Staged => /\ Begins(at, rec) => Begins(to, after)
                       /\ Overtaken(at, rec) => Overtaken(to, after)
  BY DEF Begins, Overtaken, Staged, Steps
<1>2. to \in Steps \cup {"lock", "look", "failed", "unlock", "ended"} /\ to # "look" /\ 0 \in 0..4 /\ FALSE \in BOOLEAN
  BY DEF Steps
<1> QED
  BY <1>1, <1>2, CarriedBy

LEMMA StepPropose ==
  ASSUME NEW rec, Ready("propose", rec), NEW o \in Outcomes("propose", rec)
  PROVE  Carried("propose", rec, o)
<1>1. rec \in Source /\ Keyed(rec) /\ o \in Propose(rec)
  BY OutcomesOf DEF Ready
<1>2. CASE rec.belief = "none"
  <2>1. o = <<[rec EXCEPT !.belief = "PROPOSED"], Go("validate", 0, FALSE)>>
    BY <1>1, <1>2 DEF Propose
  <2>2. LET after == [rec EXCEPT !.belief = "PROPOSED"]
        IN  after \in Source /\ Keyed(after) /\ after.status = rec.status
    BY <1>1, <1>2, BeliefMoves DEF BeliefStatuses
  <2> QED
    BY <1>1, <2>1, <2>2, SettledKeys
<1>3. CASE rec.belief # "none"
  <2>1. PICK to \in {"decide", "validate"} : o = <<rec, Go(to, 0, FALSE)>>
    BY <1>1, <1>3 DEF Propose
  <2> QED
    BY <1>1, <2>1, SettledKeys
<1> QED
  BY <1>2, <1>3

LEMMA StepValidate ==
  ASSUME NEW rec, Ready("validate", rec), NEW o \in Outcomes("validate", rec)
  PROVE  Carried("validate", rec, o)
<1>1. rec \in Source /\ Keyed(rec) /\ o \in Validate(rec)
  BY OutcomesOf DEF Ready
<1>2. rec.belief # "COMMITTED"
  BY <1>1 DEF Validate
<1>3. PICK belief \in {"VALIDATED", "PROPOSED"}, to \in {"decide", "failed"} :
        o = <<[rec EXCEPT !.belief = belief], Go(to, 0, FALSE)>>
  BY <1>1 DEF Validate
<1>4. LET after == [rec EXCEPT !.belief = belief]
      IN  after \in Source /\ Keyed(after) /\ after.status = rec.status
  BY <1>1, <1>2, BeliefMoves DEF BeliefStatuses
<1> QED
  BY <1>1, <1>3, <1>4, SettledKeys

LEMMA StepDecide ==
  ASSUME NEW rec, Ready("decide", rec), NEW o \in Outcomes("decide", rec)
  PROVE  Carried("decide", rec, o)
<1>1. rec \in Source /\ Keyed(rec) /\ o \in Decide(rec)
  BY OutcomesOf DEF Ready
<1>2. CASE rec.belief = "COMMITTED"
  <2>1. o = <<rec, Go("govern", 0, FALSE)>>
    BY <1>1, <1>2 DEF Decide
  <2> QED
    BY <1>1, <2>1, SettledKeys
<1>3. CASE rec.belief # "COMMITTED"
  <2>1. PICK belief \in {"VALIDATED", "REJECTED"}, to \in {"apply", "failed"} :
          o = <<[rec EXCEPT !.belief = belief], Go(to, 0, FALSE)>>
    BY <1>1, <1>3 DEF Decide
  <2>2. LET after == [rec EXCEPT !.belief = belief]
        IN  after \in Source /\ Keyed(after) /\ after.status = rec.status
    BY <1>1, <1>3, BeliefMoves DEF BeliefStatuses
  <2> QED
    BY <1>1, <2>1, <2>2, SettledKeys
<1> QED
  BY <1>2, <1>3

LEMMA StepApply ==
  ASSUME NEW rec, Ready("apply", rec), NEW o \in Outcomes("apply", rec)
  PROVE  Carried("apply", rec, o)
<1>1. rec \in Source /\ Keyed(rec) /\ o \in Apply(rec)
  BY OutcomesOf DEF Ready
<1>2. CASE rec.belief = "COMMITTED"
  <2>1. o = <<rec, Go("govern", 0, FALSE)>>
    BY <1>1, <1>2 DEF Apply
  <2> QED
    BY <1>1, <2>1, SettledKeys
<1>3. CASE rec.belief # "COMMITTED"
  <2> DEFINE after == [rec EXCEPT !.belief = "COMMITTED", !.times = Once(rec, "apply")]
  <2>1. o = <<after, Go("govern", 0, FALSE)>>
    BY <1>1, <1>3 DEF Apply
  <2>2. /\ after \in Source /\ after.status = rec.status /\ after.run = rec.run
        /\ after.belief = "COMMITTED" /\ after.times = Once(rec, "apply")
    BY <1>1, TimesOf DEF Source, BeliefStatuses, Effects
  <2> HIDE DEF after
  <2>3. Keyed(after)
    <3>1. Once(rec, "apply")["apply"] = 1 /\ Once(rec, "apply")["claims"] = rec.times["claims"]
      BY <1>1, <1>3, TimesOf DEF Keyed, Effects
    <3> QED
      BY <1>1, <2>2, <3>1 DEF Keyed
  <2> QED
    BY <1>1, <2>1, <2>2, <2>3, SettledKeys
<1> QED
  BY <1>2, <1>3

LEMMA StepGovern ==
  ASSUME NEW rec, Ready("govern", rec), NEW o \in Outcomes("govern", rec)
  PROVE  Carried("govern", rec, o)
<1> DEFINE after == [rec EXCEPT !.status = "GOVERNED"]
<1>1. o = <<after, Go("look", 4, FALSE)>>
  BY OutcomesOf
<1>2. rec \in Source /\ Keyed(rec) /\ (Begins("govern", rec) \/ Overtaken("govern", rec))
  BY DEF Ready, Staged, Steps
<1>3. /\ after \in Source /\ after.status = "GOVERNED" /\ after.run = rec.run
      /\ after.belief = rec.belief /\ after.times = rec.times
  BY <1>2 DEF Source, LedgerStatuses
<1> HIDE DEF after
<1>4. Keyed(after)
  BY <1>2, <1>3 DEF Keyed
<1>5. \/ after.status = rec.status
      \/ /\ rec.status \notin Final /\ Rank(after.status) = Rank(rec.status) + 1
         /\ Begins("govern", rec) /\ Overtaken("govern", after)
  BY <1>2, <1>3, Ranks DEF Begins, Overtaken, Final
<1>6. "look" \notin Staged /\ 4 \in 1..4 /\ 4 < Rank(after.status) /\ 4 \in 0..4 /\ FALSE \in BOOLEAN
  BY <1>3, Ranks DEF Staged, Steps
<1>7. Carried("govern", rec, <<after, Go("look", 4, FALSE)>>)
  BY <1>3, <1>4, <1>5, <1>6, CarriedBy
<1> QED
  BY <1>1, <1>7

LEMMA StepProject ==
  ASSUME NEW rec, Ready("project", rec), NEW o \in Outcomes("project", rec)
  PROVE  Carried("project", rec, o)
<1> DEFINE status == IF rec.unresolved > 0 THEN "NEEDS_REVIEW" ELSE "SUCCEEDED"
           after == [rec EXCEPT !.status = status, !.times = Once(rec, "project")]
<1>1. o = <<after, Go("projected", 0, TRUE)>>
  <2>1. Project(rec) = {<<after, Go("projected", 0, TRUE)>>}
    BY DEF Project
  <2> HIDE DEF after
  <2> QED
    BY <2>1, OutcomesOf
<1>2. rec \in Source /\ Keyed(rec) /\ (Begins("project", rec) \/ Overtaken("project", rec))
  BY DEF Ready, Staged, Steps
<1>3. /\ after \in Source /\ after.status = status /\ after.run = rec.run
      /\ after.unresolved = rec.unresolved
      /\ after.belief = rec.belief /\ after.times = Once(rec, "project")
  BY <1>2, TimesOf DEF Source, LedgerStatuses, Effects
<1> HIDE DEF after
<1>4. Keyed(after)
  <2>1. /\ Once(rec, "project")["claims"] = rec.times["claims"]
        /\ Once(rec, "project")["apply"] = rec.times["apply"]
    BY <1>2, TimesOf DEF Effects
  <2> QED
    BY <1>2, <1>3, <2>1 DEF Keyed
<1>5. status \in Final
  BY DEF Final
<1>6. \/ after.status = rec.status
      \/ /\ rec.status \notin Final /\ Rank(after.status) = Rank(rec.status) + 1
         /\ Begins("project", rec) /\ Overtaken("project", after)
  <2>1. CASE Overtaken("project", rec)
    BY <1>3, <2>1 DEF Overtaken
  <2>2. CASE Begins("project", rec)
    <3>1. rec.status = "GOVERNED"
      BY <2>2 DEF Begins
    <3>2. Overtaken("project", after)
      BY <1>3 DEF Overtaken
    <3> QED
      BY <1>3, <2>2, <3>1, <3>2, Ranks DEF Final
  <2> QED
    BY <1>2, <2>1, <2>2
<1>7. "projected" \in Steps /\ "projected" \notin Staged /\ 0 \in 0..4 /\ TRUE \in BOOLEAN
  BY DEF Staged, Steps
<1>8. Carried("project", rec, <<after, Go("projected", 0, TRUE)>>)
  BY <1>3, <1>4, <1>5, <1>6, <1>7, CarriedBy
<1> QED
  BY <1>1, <1>8

LEMMA StepAnswered ==
  ASSUME NEW at \in {"projected", "clear"}, NEW rec, Ready(at, rec), rec.status \in Final,
         NEW o \in Outcomes(at, rec)
  PROVE  Carried(at, rec, o)
<1>1. o = <<rec, Go("unlock", 0, TRUE)>>
  BY OutcomesOf
<1>2. rec \in Source /\ Keyed(rec) /\ "unlock" \notin Staged /\ 0 \in 0..4 /\ TRUE \in BOOLEAN
  BY DEF Ready, Staged, Steps
<1>3. Carried(at, rec, <<rec, Go("unlock", 0, TRUE)>>)
  BY <1>2, CarriedBy
<1> QED
  BY <1>1, <1>3

\* Any step of any handler.
LEMMA StepCarried ==
  ASSUME NEW at \in Steps, NEW rec, Ready(at, rec), at \in {"projected", "clear"} => rec.status \in Final,
         NEW o \in Outcomes(at, rec)
  PROVE  Carried(at, rec, o)
  BY StepExtract, StepClaims, StepMark, StepCanonicalize, StepPropose, StepValidate, StepDecide,
     StepApply, StepGovern, StepProject, StepAnswered DEF Steps

\* A handler that is not at a step of a transaction commits nothing.
LEMMA NoOutcomes ==
  ASSUME NEW at \in {"out", "lock", "look", "failed", "unlock", "ended"}, NEW rec
  PROVE  Outcomes(at, rec) = {}
  BY DEF Outcomes

\* Where a handler stands after a step of its own ...
LEMMA GoesOnKnowing ==
  ASSUME NEW h \in Handler, NEW rec \in Source, Keyed(rec), NEW pending \in BOOLEAN,
         HandKnows(h, rec, pending), pending => h.at \in {"extract", "projected"},
         NEW o \in Outcomes(h.at, rec)
  PROVE  h.at \in Steps /\ Carried(h.at, rec, o) /\ HandKnows(o[2], o[1], pending)
<1>1. h.at \in Steps
  BY NoOutcomes DEF Handler, Steps
<1>2. Carried(h.at, rec, o)
  BY <1>1, StepCarried DEF HandKnows, Ready
<1>3. h.at \in Staged \/ h.at \in {"projected", "clear"}
  BY <1>1 DEF Staged, Steps
<1>4. o[2].at \in Staged => Begins(o[2].at, o[1]) \/ (~pending /\ Overtaken(o[2].at, o[1]))
  <2>1. CASE h.at \in Staged
    BY <1>2, <2>1 DEF HandKnows, Carried
  <2>2. CASE h.at \in {"projected", "clear"}
    <3>1. o = <<rec, Go("unlock", 0, TRUE)>>
      BY <2>2, OutcomesOf
    <3>2. o[2].at = "unlock"
      BY <3>1 DEF Go
    <3> QED
      BY <3>2 DEF Staged, Steps
  <2> QED
    BY <1>3, <2>1, <2>2
<1> QED
  BY <1>1, <1>2, <1>4 DEF HandKnows, Carried

\* ... and after the COMMIT of another process has landed.
LEMMA LandsKnowing ==
  ASSUME NEW at \in Staged, NEW rec \in Source, NEW o, Carried(at, rec, o),
         NEW h \in Handler, HandKnows(h, rec, TRUE)
  PROVE  HandKnows(h, o[1], FALSE)
<1>1. rec.status \in LedgerStatuses /\ o[1].status \in LedgerStatuses
  BY DEF Carried, Source
<1>2. \/ o[1].status = rec.status
      \/ /\ rec.status \notin Final /\ Rank(o[1].status) = Rank(rec.status) + 1
         /\ Begins(at, rec) /\ Overtaken(at, o[1])
  BY DEF Carried
<1>3. h.at \in Staged => Begins(h.at, o[1]) \/ Overtaken(h.at, o[1])
  <2> SUFFICES ASSUME h.at \in Staged PROVE Begins(h.at, o[1]) \/ Overtaken(h.at, o[1])
    OBVIOUS
  <2>1. Begins(h.at, rec)
    BY DEF HandKnows
  <2>2. CASE o[1].status = rec.status
    BY <2>1, <2>2 DEF Begins
  <2>3. CASE Begins(at, rec) /\ Overtaken(at, o[1])
    BY <2>1, <2>3 DEF Begins, Overtaken
  <2> QED
    BY <1>2, <2>2, <2>3
<1>4. h.at = "look" => h.stage \in 1..4 /\ (h.stage = 1 \/ h.stage < Rank(o[1].status))
  <2>1. Rank(rec.status) \in 1..6
    BY <1>1, Ranks DEF LedgerStatuses
  <2> QED
    BY <1>2, <2>1 DEF HandKnows
<1>5. h.ok \/ h.at \in {"projected", "clear"} => o[1].status \in Final
  BY <1>2 DEF HandKnows
<1> QED
  BY <1>3, <1>4, <1>5 DEF HandKnows

\* Where a handler goes that has looked.
LEMMA LooksKnowing ==
  ASSUME NEW h \in Handler, h.at = "look", NEW rec \in Source, NEW pending \in BOOLEAN, HandKnows(h, rec, pending)
  PROVE  LET next == Seen(rec, h.stage)
         IN  next \in Handler /\ next.at # "out" /\ HandKnows(next, rec, pending)
<1> DEFINE k == h.stage
           next == Seen(rec, k)
<1>1. k \in 1..4 /\ (k = 1 \/ k < Rank(rec.status)) /\ rec.status \in LedgerStatuses
  BY DEF HandKnows, Source
<1>2. CASE rec.status = "NONE"
  <2>1. next = Go("failed", 0, FALSE)
    BY <1>2 DEF Seen
  <2>2. next \in Handler /\ next.at = "failed" /\ next.ok = FALSE
    BY <2>1 DEF Go, Handler, Steps
  <2> QED
    BY <2>2 DEF HandKnows, Staged, Steps
<1>3. CASE rec.status # "NONE" /\ k = 1 /\ rec.status \in Final
  <2>1. next = Go("clear", 0, TRUE)
    BY <1>3 DEF Seen
  <2>2. "clear" \in Steps /\ "clear" \notin Staged
    BY DEF Steps, Staged
  <2>3. next \in Handler /\ next.at = "clear"
    BY <2>1, <2>2 DEF Go, Handler
  <2> QED
    BY <1>3, <2>2, <2>3 DEF HandKnows
<1>4. CASE rec.status # "NONE" /\ ~(k = 1 /\ rec.status \in Final)
  <2>1. CASE Rank(rec.status) = k + 1
    <3>1. next = Go(FirstStep(rec), 0, FALSE)
      BY <1>4, <2>1 DEF Seen
    <3>2. rec.status \in {"PENDING", "EXTRACTED", "CANONICALIZED", "GOVERNED"}
      BY <1>1, <1>4, <2>1, Ranks DEF LedgerStatuses, Final
    <3>3. FirstStep(rec) \in Staged /\ Begins(FirstStep(rec), rec)
      BY <3>2, FirstSteps
    <3>4. next \in Handler /\ next.at = FirstStep(rec) /\ next.at # "out" /\ next.ok = FALSE
      <4>1. FirstStep(rec) \in Steps
        BY <3>3 DEF Staged
      <4> QED
        BY <3>1, <4>1 DEF Go, Handler, Steps
    <3>5. next.at \in Staged /\ Begins(next.at, rec)
      BY <3>3, <3>4
    <3> QED
      BY <3>4, <3>5 DEF HandKnows, Staged, Steps
  <2>2. CASE Rank(rec.status) # k + 1 /\ k = 4
    <3>1. next = Go("unlock", 0, TRUE)
      BY <1>4, <2>2 DEF Seen
    <3>2. rec.status \in Final
      BY <1>1, <2>2, Ranks DEF LedgerStatuses, Final
    <3>3. next \in Handler /\ next.at = "unlock"
      BY <3>1 DEF Go, Handler, Steps
    <3> QED
      BY <3>2, <3>3 DEF HandKnows, Staged, Steps
  <2>3. CASE Rank(rec.status) # k + 1 /\ k # 4
    <3>1. next = Go("look", k + 1, FALSE)
      BY <1>4, <2>3 DEF Seen
    <3>4. k + 1 \in 1..4
      BY <1>1, <2>3
    <3>2. k + 1 < Rank(rec.status)
      BY <1>1, <1>4, <2>3, Ranks DEF LedgerStatuses
    <3>3. next \in Handler /\ next.at = "look" /\ next.stage = k + 1 /\ next.ok = FALSE
      BY <3>1, <3>4 DEF Go, Handler, Steps
    <3> QED
      BY <3>2, <3>3, <3>4 DEF HandKnows, Staged, Steps
  <2> QED
    BY <2>1, <2>2, <2>3
<1> QED
  BY <1>2, <1>3, <1>4

-----------------------------------------------------------------------------
(* What is known of a worker and of a source.                              *)

LEMMA KnownOfWorker ==
  ASSUME PInv, NEW w \in Workers
  PROVE  /\ hand[w] \in Handler
         /\ worker[w].at \in {"handling", "reported"} => worker[w].job \in Jobs
         /\ worker[w].at = "handling" =>
              HandKnows(hand[w], src[worker[w].job], orphan[worker[w].job] \in Steps)
         /\ hand[w].at # "out" => worker[w].at = "handling"
         /\ hand[w].at \in Steps \cup {"look"} => lock[worker[w].job] = w
<1>1. worker[w] \in Turns /\ TurnKnows(w, worker[w])
  BY DEF PInv, IInv, TypeOK, TurnsKnow
<1>2. worker[w].at \in {"handling", "reported"} => worker[w].job \in Jobs
  BY <1>1 DEF TurnKnows, Turns
<1> QED
  BY <1>2 DEF PInv, PTypeOK, HandsKnow, LockHeld

LEMMA KnownOfSource ==
  ASSUME PInv, NEW j \in Jobs
  PROVE  src \in [Jobs -> Source] /\ src[j] \in Source /\ Keyed(src[j])
  BY SourceType DEF PInv

-----------------------------------------------------------------------------
(* The queue underneath.                                                   *)

LEMMA Underneath == ASSUME PTypeOK, [PNext]_allVars PROVE [Next]_vars
<1>1. CASE UNCHANGED allVars
  BY <1>1 DEF allVars, vars
<1>2. ASSUME NEW j \in Jobs, RecordIntent(j) \/ Land(j) PROVE UNCHANGED vars
  BY <1>2 DEF RecordIntent, Land, vars
<1>3. ASSUME NEW j \in Jobs, RetryDeadLetterJob(j) \/ LeaseExpires(j) PROVE Next
  BY <1>3 DEF Next
<1>4. ASSUME NEW w \in Workers, NEW j \in Jobs, Dispatch(w, j) PROVE Next
  BY <1>4 DEF Dispatch, Next
<1>5. ASSUME NEW w \in Workers, QueueStep(w) PROVE Next
  BY <1>5 DEF QueueStep, Next, Turn
<1>6. ASSUME NEW w \in Workers, BeginJob(w) PROVE Next
  BY <1>6 DEF BeginJob, Next, Turn
<1>7. ASSUME NEW w \in Workers, Handle(w) PROVE UNCHANGED vars
  BY <1>7 DEF Handle, TakeLock, Look, Work, AnswerLost, Fail, RecordError, Unlock, vars
<1>8. ASSUME NEW w \in Workers, Report(w) PROVE Next
  <2>1. hand[w].ok \in BOOLEAN
    BY DEF PTypeOK, Handler
  <2>2. ReportOutcome(w, hand[w].ok) \/ ReportRefused(w)
    BY <1>8 DEF Report
  <2> QED
    BY <2>1, <2>2 DEF Next, Turn
<1>9. ASSUME NEW w \in Workers, Die(w) PROVE Next
  BY <1>9 DEF Die, Next, Turn
<1> QED
  BY <1>1, <1>2, <1>3, <1>4, <1>5, <1>6, <1>7, <1>8, <1>9 DEF PNext

-----------------------------------------------------------------------------
(* Steps of a handler.                                                     *)

\* A handler moves, and carries its own source at most: nobody else is at a step of
\* that source, and a final status stays what it is.
LEMMA HandlerMoves ==
  ASSUME PInv, NEW w \in Workers, worker[w].at = "handling",
         NEW h \in Handler, h.at # "out", hand' = [hand EXCEPT ![w] = h],
         NEW rec \in Source, Keyed(rec), src' = [src EXCEPT ![worker[w].job] = rec],
         UNCHANGED <<vars, orphan>>,
         \/ rec = src[worker[w].job]
         \/ hand[w].at \in Steps /\ orphan[worker[w].job] \notin Steps,
         src[worker[w].job].status \in Final => rec.status \in Final,
         HandKnows(h, rec, orphan[worker[w].job] \in Steps),
         lock' \in [Jobs -> Workers \cup {None}],
         \A v \in Workers \ {w}, i \in Jobs : lock[i] = v => lock'[i] = v,
         h.at \in Steps \cup {"look"} => lock'[worker[w].job] = w
  PROVE  PInv'
<1> DEFINE j == worker[w].job
<1>1. j \in Jobs /\ src \in [Jobs -> Source]
  BY KnownOfWorker, SourceType DEF PInv
<1>2. /\ src' \in [Jobs -> Source] /\ src'[j] = rec
      /\ \A i \in Jobs \ {j} : src'[i] = src[i]
  BY <1>1
<1>3. /\ hand' \in [Workers -> Handler] /\ hand'[w] = h
      /\ \A v \in Workers \ {w} : hand'[v] = hand[v]
  BY DEF PInv, PTypeOK
<1>4. UNCHANGED <<jobs, worker, claims, retries>>
  BY DEF vars
<1>5. \A i \in Jobs : src[i].status \in Final => src'[i].status \in Final
  BY <1>2
<1>13. hand[w].at \in Steps => lock[j] = w
  BY KnownOfWorker
<1>14. rec = src[j] \/ (hand[w].at \in Steps /\ orphan[j] \notin Steps)
  OBVIOUS
<1> HIDE DEF j
<1>6. IInv'
  BY InvStep DEF PInv, vars
<1>7. PTypeOK'
  <2>1. TypeOK'
    BY <1>6 DEF IInv
  <2> QED
    BY <1>2, <1>3, <2>1, StatusesAre DEF PInv, PTypeOK, Source
<1>8. ASSUME NEW v \in Workers
      PROVE  /\ hand'[v].at # "out" => worker'[v].at = "handling"
             /\ worker'[v].at = "handling" =>
                  HandKnows(hand'[v], src'[worker'[v].job], orphan'[worker'[v].job] \in Steps)
             /\ worker'[v].at = "reported" /\ worker'[v].ok => src'[worker'[v].job].status \in Final
             /\ hand'[v].at \in Steps \cup {"look"} => lock'[worker'[v].job] = v
  <2>1. CASE v = w
    BY <1>2, <1>3, <1>4, <2>1 DEF j
  <2>2. CASE v # w
    <3>1. /\ hand'[v] = hand[v] /\ worker'[v] = worker[v]
          /\ worker[v].at \in {"handling", "reported"} => worker[v].job \in Jobs
          /\ hand[v].at # "out" => worker[v].at = "handling"
          /\ hand[v].at \in Steps \cup {"look"} => lock[worker[v].job] = v
      BY <1>3, <1>4, <2>2, KnownOfWorker
    <3>2. hand'[v].at \in Steps \cup {"look"} => lock'[worker'[v].job] = v
      BY <2>2, <3>1 DEF Steps
    <3>3. ASSUME worker[v].at = "handling"
          PROVE  HandKnows(hand[v], src'[worker[v].job], orphan[worker[v].job] \in Steps)
      <4>1. HandKnows(hand[v], src[worker[v].job], orphan[worker[v].job] \in Steps) /\ worker[v].job \in Jobs
        BY <3>3, KnownOfWorker
      <4>2. CASE src'[worker[v].job] = src[worker[v].job]
        BY <4>1, <4>2
      <4>3. CASE src'[worker[v].job] # src[worker[v].job]
        <5>1. worker[v].job = j /\ hand[w].at \in Steps
          BY <1>2, <1>14, <4>1, <4>3
        <5>2. lock[j] = w
          BY <1>13, <5>1
        <5>3. hand[v].at \notin Steps \cup {"look"}
          BY <2>2, <3>1, <5>1, <5>2
        <5> QED
          BY <1>5, <4>1, <5>3 DEF HandKnows, Staged, Steps
      <4> QED
        BY <4>2, <4>3
    <3>4. worker[v].at = "reported" /\ worker[v].ok => src'[worker[v].job].status \in Final
      BY <1>5, <3>1 DEF PInv, HandsKnow
    <3> QED
      BY <1>4, <3>1, <3>2, <3>3, <3>4
  <2> QED
    BY <2>1, <2>2
<1>9. HandsKnow' /\ LockHeld'
  BY <1>8 DEF HandsKnow, LockHeld
<1>10. OrphansKnow'
  <2> SUFFICES ASSUME NEW i \in Jobs, orphan[i] \in Staged
               PROVE  Begins(orphan[i], src'[i]) \/ Overtaken(orphan[i], src'[i])
    BY DEF OrphansKnow
  <2>1. src'[i] = src[i]
    BY <1>2, <1>14 DEF Staged, Steps
  <2> QED
    BY <2>1 DEF PInv, OrphansKnow
<1>11. \A i \in Jobs : Keyed(src'[i])
  BY <1>2 DEF PInv
<1>12. JobDoneMeansFinal'
  BY <1>4, <1>5 DEF PInv, JobDoneMeansFinal
<1> QED
  BY <1>6, <1>7, <1>9, <1>10, <1>11, <1>12 DEF PInv

\* The same when the source stays as it is.
LEMMA HandlerTurns ==
  ASSUME PInv, NEW w \in Workers, worker[w].at = "handling",
         NEW h \in Handler, h.at # "out", hand' = [hand EXCEPT ![w] = h],
         UNCHANGED <<vars, src, orphan>>,
         HandKnows(h, src[worker[w].job], orphan[worker[w].job] \in Steps),
         lock' \in [Jobs -> Workers \cup {None}],
         \A v \in Workers \ {w}, i \in Jobs : lock[i] = v => lock'[i] = v,
         h.at \in Steps \cup {"look"} => lock'[worker[w].job] = w
  PROVE  PInv'
<1>1. worker[w].job \in Jobs
  BY KnownOfWorker
<1>2. src[worker[w].job] \in Source /\ Keyed(src[worker[w].job]) /\ src \in [Jobs -> Source]
  BY <1>1, KnownOfSource
<1> DEFINE rec == src[worker[w].job]
<1>3. src' = [src EXCEPT ![worker[w].job] = rec]
  BY <1>1, <1>2
<1>4. rec \in Source /\ Keyed(rec) /\ HandKnows(h, rec, orphan[worker[w].job] \in Steps)
      /\ rec = src[worker[w].job] /\ (src[worker[w].job].status \in Final => rec.status \in Final)
  BY <1>2
<1>5. UNCHANGED <<vars, orphan>>
  OBVIOUS
<1> HIDE DEF rec
<1> QED
  BY <1>3, <1>4, <1>5, HandlerMoves, ZenonT(60)

\* Where a handler goes without the lock, and with nothing done.
LEMMA Unencumbered ==
  ASSUME NEW at \in {"lock", "failed", "unlock", "ended"}, NEW rec, NEW pending
  PROVE  /\ Go(at, 0, FALSE) \in Handler /\ Go(at, 0, FALSE).at = at /\ Go(at, 0, FALSE).ok = FALSE
         /\ HandKnows(Go(at, 0, FALSE), rec, pending)
<1>1. Go(at, 0, FALSE) \in Handler /\ Go(at, 0, FALSE).at = at /\ Go(at, 0, FALSE).ok = FALSE
  BY DEF Go, Handler, Steps
<1> DEFINE h == Go(at, 0, FALSE)
<1>2. h.at \notin Staged \cup {"look", "projected", "clear"} /\ ~h.ok
  BY <1>1 DEF Staged, Steps
<1>3. HandKnows(h, rec, pending)
  <2> HIDE DEF h
  <2> QED
    BY <1>2 DEF HandKnows
<1> QED
  BY <1>1, <1>3

LEMMA TakeLockKeeps == ASSUME PInv, NEW w \in Workers, TakeLock(w) PROVE PInv'
<1> DEFINE h == Go("look", 1, FALSE)
<1>1. h \in Handler /\ h.at = "look" /\ h.stage = 1 /\ h.ok = FALSE
  BY DEF Go, Handler, Steps
<1>2. HandKnows(h, src[worker[w].job], orphan[worker[w].job] \in Steps)
  <2>1. h.at \notin Staged /\ h.at \notin {"projected", "clear"} /\ ~h.ok /\ h.stage = 1
    BY <1>1 DEF Staged, Steps
  <2> HIDE DEF h
  <2> QED
    BY <2>1 DEF HandKnows
<1>3. worker[w].at = "handling" /\ worker[w].job \in Jobs
  BY KnownOfWorker DEF TakeLock, Handling
<1>4. hand' = [hand EXCEPT ![w] = h] /\ UNCHANGED <<vars, src, orphan>>
  BY DEF TakeLock
<1>5. /\ lock' \in [Jobs -> Workers \cup {None}] /\ lock'[worker[w].job] = w
      /\ \A v \in Workers \ {w}, i \in Jobs : lock[i] = v => lock'[i] = v
  BY <1>3, WorkersAssumption DEF TakeLock, FreeLock, PInv, PTypeOK
<1> HIDE DEF h
<1> QED
  BY <1>1, <1>2, <1>3, <1>4, <1>5, HandlerTurns

LEMMA LookKeeps == ASSUME PInv, NEW w \in Workers, Look(w) PROVE PInv'
<1> DEFINE j == worker[w].job
           h == Seen(src[j], hand[w].stage)
<1>1. worker[w].at = "handling" /\ hand[w].at = "look" /\ hand[w] \in Handler /\ j \in Jobs
  BY KnownOfWorker DEF Look, Handling
<1>2. src[j] \in Source /\ HandKnows(hand[w], src[j], orphan[j] \in Steps) /\ lock[j] = w
  BY <1>1, KnownOfWorker, KnownOfSource
<1>3. h \in Handler /\ h.at # "out" /\ HandKnows(h, src[j], orphan[j] \in Steps)
  <2> DEFINE pending == (orphan[j] \in Steps)
  <2>1. pending \in BOOLEAN
    OBVIOUS
  <2> HIDE DEF pending
  <2>2. HandKnows(hand[w], src[j], pending)
    BY <1>2 DEF pending
  <2>3. h \in Handler /\ h.at # "out" /\ HandKnows(h, src[j], pending)
    BY <1>1, <1>2, <2>1, <2>2, LooksKnowing
  <2> QED
    BY <2>3 DEF pending
<1>4. hand' = [hand EXCEPT ![w] = h] /\ UNCHANGED <<vars, src, orphan, lock>>
  BY DEF Look
<1>5. lock \in [Jobs -> Workers \cup {None}]
  BY DEF PInv, PTypeOK
<1> HIDE DEF h
<1> QED
  BY <1>1, <1>2, <1>3, <1>4, <1>5, HandlerTurns

\* A handler that may work knows what its transaction does.
LEMMA Working ==
  ASSUME PInv, NEW w \in Workers, Unblocked(w), NEW o \in Outcomes(hand[w].at, src[worker[w].job])
  PROVE  /\ worker[w].at = "handling" /\ worker[w].job \in Jobs /\ hand[w].at \in Steps
         /\ lock[worker[w].job] = w
         /\ Carried(hand[w].at, src[worker[w].job], o)
         /\ HandKnows(o[2], o[1], orphan[worker[w].job] \in Steps)
         /\ o[1] = src[worker[w].job] \/ orphan[worker[w].job] \notin Steps
<1> DEFINE j == worker[w].job
           pending == (orphan[j] \in Steps)
<1>1. worker[w].at = "handling" /\ j \in Jobs /\ hand[w] \in Handler
  BY KnownOfWorker DEF Unblocked
<1>2. src[j] \in Source /\ Keyed(src[j]) /\ HandKnows(hand[w], src[j], pending)
  BY <1>1, KnownOfWorker, KnownOfSource
<1>3. pending \in BOOLEAN /\ (pending => hand[w].at \in {"extract", "projected"})
  BY DEF Unblocked
<1>4. hand[w].at \in Steps /\ Carried(hand[w].at, src[j], o) /\ HandKnows(o[2], o[1], pending)
  <2> HIDE DEF pending
  <2> QED
    BY <1>1, <1>2, <1>3, GoesOnKnowing
<1>5. o[1] = src[j] \/ orphan[j] \notin Steps
  BY <1>3, <1>4 DEF Carried
<1> QED
  BY <1>1, <1>4, <1>5, KnownOfWorker

LEMMA WorkKeeps == ASSUME PInv, NEW w \in Workers, Work(w) PROVE PInv'
<1> DEFINE j == worker[w].job
<1>1. PICK o \in Outcomes(hand[w].at, src[j]) :
        src' = [src EXCEPT ![j] = o[1]] /\ hand' = [hand EXCEPT ![w] = o[2]]
  BY DEF Work
<1>2. /\ worker[w].at = "handling" /\ j \in Jobs /\ hand[w].at \in Steps /\ lock[j] = w
      /\ Carried(hand[w].at, src[j], o) /\ HandKnows(o[2], o[1], orphan[j] \in Steps)
      /\ o[1] = src[j] \/ orphan[j] \notin Steps
  BY Working DEF Work
<1>3. /\ o[1] \in Source /\ Keyed(o[1]) /\ o[2] \in Handler /\ o[2].at # "out"
      /\ src[j].status \in Final => o[1].status \in Final
  BY <1>2 DEF Carried
<1>4. UNCHANGED <<vars, orphan, lock>> /\ lock \in [Jobs -> Workers \cup {None}]
  BY DEF Work, PInv, PTypeOK
<1> QED
  BY <1>1, <1>2, <1>3, <1>4, HandlerMoves

LEMMA AnswerLostKeeps == ASSUME PInv, NEW w \in Workers, AnswerLost(w) PROVE PInv'
<1> DEFINE j == worker[w].job
           h == Go("failed", 0, FALSE)
<1>1. PICK o \in Outcomes(hand[w].at, src[j]) : src' = [src EXCEPT ![j] = o[1]]
  BY DEF AnswerLost
<1>2. /\ worker[w].at = "handling" /\ j \in Jobs /\ hand[w].at \in Steps /\ lock[j] = w
      /\ Carried(hand[w].at, src[j], o) /\ (o[1] = src[j] \/ orphan[j] \notin Steps)
  BY Working DEF AnswerLost
<1>3. o[1] \in Source /\ Keyed(o[1]) /\ (src[j].status \in Final => o[1].status \in Final)
  BY <1>2 DEF Carried
<1>4. h \in Handler /\ h.at = "failed" /\ HandKnows(h, o[1], orphan[j] \in Steps)
  BY Unencumbered
<1>5. hand' = [hand EXCEPT ![w] = h] /\ UNCHANGED <<vars, orphan, lock>>
  BY DEF AnswerLost
<1>6. lock \in [Jobs -> Workers \cup {None}] /\ h.at \notin Steps \cup {"look"}
  BY <1>4 DEF PInv, PTypeOK, Steps
<1> HIDE DEF h
<1> QED
  BY <1>1, <1>2, <1>3, <1>4, <1>5, <1>6, HandlerMoves

LEMMA GivesUpKeeps == ASSUME PInv, NEW w \in Workers, Fail(w) \/ RecordError(w) PROVE PInv'
<1>1. PICK at \in {"failed", "unlock"} : hand' = [hand EXCEPT ![w] = Go(at, 0, FALSE)]
  BY DEF Fail, RecordError, Thrown
<1> DEFINE h == Go(at, 0, FALSE)
<1>2. worker[w].at = "handling" /\ UNCHANGED <<vars, src, lock, orphan>>
  BY DEF Fail, RecordError, Handling
<1>3. h \in Handler /\ h.at = at /\ HandKnows(h, src[worker[w].job], orphan[worker[w].job] \in Steps)
  BY Unencumbered
<1>4. lock \in [Jobs -> Workers \cup {None}] /\ h.at \notin Steps \cup {"look"} /\ h.at # "out"
  BY <1>3 DEF PInv, PTypeOK, Steps
<1>5. hand' = [hand EXCEPT ![w] = h]
  BY <1>1
<1> HIDE DEF h
<1> QED
  BY <1>2, <1>3, <1>4, <1>5, HandlerTurns

\* What a session lets go of, the others keep.
LEMMA LetsGo ==
  ASSUME PInv, NEW w \in Workers
  PROVE  /\ Released(w) \in [Jobs -> Workers \cup {None}]
         /\ \A v \in Workers \ {w}, i \in Jobs : lock[i] = v => Released(w)[i] = v
  BY DEF Released, PInv, PTypeOK

LEMMA UnlockKeeps == ASSUME PInv, NEW w \in Workers, Unlock(w) PROVE PInv'
<1> DEFINE j == worker[w].job
<1>1. PICK ok \in {hand[w].ok, FALSE} : hand' = [hand EXCEPT ![w] = Go("ended", 0, ok)]
  BY DEF Unlock
<1> DEFINE h == Go("ended", 0, ok)
<1>2. worker[w].at = "handling" /\ j \in Jobs /\ hand[w] \in Handler /\ UNCHANGED <<vars, src, orphan>>
  BY KnownOfWorker DEF Unlock, Handling
<1>3. ok \in BOOLEAN
  BY <1>1, <1>2 DEF Handler
<1>4. h \in Handler /\ h.at = "ended" /\ h.ok = ok
  BY <1>3 DEF Go, Handler, Steps
<1>5. HandKnows(h, src[j], orphan[j] \in Steps)
  <2>1. HandKnows(hand[w], src[j], orphan[j] \in Steps)
    BY <1>2, KnownOfWorker
  <2>2. ok => src[j].status \in Final
    BY <1>1, <2>1 DEF HandKnows
  <2> QED
    BY <1>4, <2>2 DEF HandKnows, Staged, Steps
<1>6. /\ lock' \in [Jobs -> Workers \cup {None}]
      /\ \A v \in Workers \ {w}, i \in Jobs : lock[i] = v => lock'[i] = v
  BY LetsGo DEF Unlock
<1>7. h.at \notin Steps \cup {"look"} /\ h.at # "out"
  BY <1>4 DEF Steps
<1>8. hand' = [hand EXCEPT ![w] = h]
  BY <1>1
<1> HIDE DEF h
<1> QED
  BY <1>2, <1>4, <1>5, <1>6, <1>7, <1>8, HandlerTurns

-----------------------------------------------------------------------------
(* Steps of the queue, and of nobody.                                      *)

\* A worker turns to the queue or back from it, or is gone; its source stays as it is.
LEMMA WorkerTurns ==
  ASSUME PInv, [Next]_vars, NEW w \in Workers,
         NEW h \in Handler, hand' = [hand EXCEPT ![w] = h], h.at \in {"out", "lock"},
         h.at = "lock" => worker'[w].at = "handling",
         worker'[w].at = "handling" => h.at = "lock" /\ h.ok = FALSE,
         \A v \in Workers \ {w} : worker'[v] = worker[v],
         worker'[w].at = "reported" /\ worker'[w].ok => src[worker'[w].job].status \in Final,
         \A j \in Jobs : jobs'[j].status = "SUCCEEDED" => src[j].status \in Final,
         UNCHANGED src,
         lock' \in [Jobs -> Workers \cup {None}],
         \A v \in Workers \ {w}, i \in Jobs : lock[i] = v => lock'[i] = v,
         orphan' \in [Jobs -> Steps \cup {"none", "landed"}], OrphansKnow',
         \A v \in Workers \ {w} :
           worker[v].at = "handling" => HandKnows(hand[v], src[worker[v].job], orphan'[worker[v].job] \in Steps)
  PROVE  PInv'
<1>1. /\ hand' \in [Workers -> Handler] /\ hand'[w] = h
      /\ \A v \in Workers \ {w} : hand'[v] = hand[v]
  BY DEF PInv, PTypeOK
<1>2. IInv'
  BY InvStep DEF PInv
<1>3. PTypeOK'
  <2>1. TypeOK'
    BY <1>2 DEF IInv
  <2> QED
    BY <1>1, <2>1 DEF PInv, PTypeOK
<1>4. ASSUME NEW v \in Workers
      PROVE  /\ hand'[v].at # "out" => worker'[v].at = "handling"
             /\ worker'[v].at = "handling" =>
                  HandKnows(hand'[v], src'[worker'[v].job], orphan'[worker'[v].job] \in Steps)
             /\ worker'[v].at = "reported" /\ worker'[v].ok => src'[worker'[v].job].status \in Final
             /\ hand'[v].at \in Steps \cup {"look"} => lock'[worker'[v].job] = v
  <2>1. CASE v = w
    <3>1. hand'[w].at \notin Steps \cup {"look"} /\ hand'[w].at \notin Staged
      BY <1>1 DEF Steps, Staged
    <3>2. hand'[w].at \notin {"projected", "clear", "look"}
      BY <1>1
    <3>3. worker'[w].at = "handling" =>
            HandKnows(hand'[w], src'[worker'[w].job], orphan'[worker'[w].job] \in Steps)
      BY <1>1, <3>1, <3>2 DEF HandKnows
    <3>4. hand'[w].at # "out" => worker'[w].at = "handling"
      BY <1>1
    <3> QED
      BY <2>1, <3>1, <3>3, <3>4
  <2>2. CASE v # w
    <3>1. hand'[v] = hand[v] /\ worker'[v] = worker[v]
      BY <1>1, <2>2
    <3>2. worker[v].job \in Jobs \/ worker[v].at \notin {"handling", "reported"}
      BY KnownOfWorker
    <3>3. /\ hand[v].at # "out" => worker[v].at = "handling"
          /\ hand[v].at \in Steps \cup {"look"} => lock[worker[v].job] = v
      BY KnownOfWorker
    <3>4. worker[v].at = "reported" /\ worker[v].ok => src[worker[v].job].status \in Final
      BY DEF PInv, HandsKnow
    <3>5. hand[v].at \in Steps \cup {"look"} => lock'[worker[v].job] = v
      BY <2>2, <3>2, <3>3 DEF Steps
    <3> QED
      BY <2>2, <3>1, <3>3, <3>4, <3>5
  <2> QED
    BY <2>1, <2>2
<1>5. HandsKnow' /\ LockHeld'
  BY <1>4 DEF HandsKnow, LockHeld
<1>6. JobDoneMeansFinal' /\ \A j \in Jobs : Keyed(src'[j])
  BY DEF PInv, JobDoneMeansFinal
<1> QED
  BY <1>2, <1>3, <1>5, <1>6 DEF PInv

\* The same when the ledger, the locks and what is on its way stay as they are.
LEMMA QueueTurns ==
  ASSUME PInv, [Next]_vars, NEW w \in Workers,
         NEW h \in Handler, hand' = [hand EXCEPT ![w] = h], h.at \in {"out", "lock"},
         h.at = "lock" => worker'[w].at = "handling",
         worker'[w].at = "handling" => h.at = "lock" /\ h.ok = FALSE,
         \A v \in Workers \ {w} : worker'[v] = worker[v],
         worker'[w].at = "reported" /\ worker'[w].ok => src[worker'[w].job].status \in Final,
         \A j \in Jobs : jobs'[j].status = "SUCCEEDED" => src[j].status \in Final,
         UNCHANGED <<src, lock, orphan>>
  PROVE  PInv'
<1>1. /\ lock' \in [Jobs -> Workers \cup {None}] /\ orphan' \in [Jobs -> Steps \cup {"none", "landed"}]
      /\ \A v \in Workers \ {w}, i \in Jobs : lock[i] = v => lock'[i] = v
  BY DEF PInv, PTypeOK
<1>2. OrphansKnow'
  BY DEF PInv, OrphansKnow
<1>3. \A v \in Workers \ {w} :
        worker[v].at = "handling" => HandKnows(hand[v], src[worker[v].job], orphan'[worker[v].job] \in Steps)
  BY KnownOfWorker
<1> QED
  BY <1>1, <1>2, <1>3, WorkerTurns

\* No worker moves, nor the ledger; a job is not done by that.
LEMMA JobsMove ==
  ASSUME PInv, Next, UNCHANGED worker, UNCHANGED pvars,
         \A j \in Jobs : jobs'[j].status = "SUCCEEDED" => jobs[j].status = "SUCCEEDED"
  PROVE  PInv'
<1>1. IInv'
  BY InvStep DEF PInv
<1>2. PTypeOK'
  <2>1. TypeOK'
    BY <1>1 DEF IInv
  <2> QED
    BY <2>1 DEF PInv, PTypeOK, pvars
<1>3. HandsKnow' /\ LockHeld' /\ OrphansKnow'
  BY DEF PInv, HandsKnow, LockHeld, OrphansKnow, pvars
<1>4. JobDoneMeansFinal' /\ \A j \in Jobs : Keyed(src'[j])
  BY DEF PInv, JobDoneMeansFinal, pvars
<1> QED
  BY <1>1, <1>2, <1>3, <1>4 DEF PInv

LEMMA DispatchKeeps == ASSUME PInv, NEW w \in Workers, NEW j \in Jobs, Dispatch(w, j) PROVE PInv'
<1>1. EnqueueJob(j) /\ UNCHANGED pvars
  BY DEF Dispatch
<1>2. \A i \in Jobs : jobs'[i].status = "SUCCEEDED" => jobs[i].status = "SUCCEEDED"
  <2>1. jobs \in [Jobs -> Rows]
    BY DEF PInv, IInv, TypeOK
  <2> QED
    BY <1>1, <2>1 DEF EnqueueJob, Rows
<1>3. Next /\ UNCHANGED worker
  BY <1>1 DEF Next, EnqueueJob
<1> QED
  BY <1>1, <1>2, <1>3, JobsMove

LEMMA OperationsKeep ==
  ASSUME PInv, NEW j \in Jobs, RetryDeadLetterJob(j) \/ LeaseExpires(j), UNCHANGED pvars
  PROVE  PInv'
<1>1. \A i \in Jobs : jobs'[i].status = "SUCCEEDED" => jobs[i].status = "SUCCEEDED"
  <2>1. jobs \in [Jobs -> Rows] /\ jobs[j] \in Rows
    BY DEF PInv, IInv, TypeOK
  <2>2. Requeued(jobs[j]).status # "SUCCEEDED"
    BY <2>1 DEF Requeued, Rows
  <2>3. CASE RetryDeadLetterJob(j)
    BY <2>1, <2>2, <2>3 DEF RetryDeadLetterJob
  <2>4. CASE LeaseExpires(j)
    BY <2>1, <2>4 DEF LeaseExpires, Rows
  <2> QED
    BY <2>3, <2>4
<1>2. Next /\ UNCHANGED worker
  BY DEF Next, RetryDeadLetterJob, LeaseExpires
<1> QED
  BY <1>1, <1>2, JobsMove

LEMMA OutFits == Out \in Handler /\ Out.at = "out" /\ Out.ok = FALSE
  BY DEF Out, Handler

LEMMA AtRest == Idle.at = "idle"
  BY DEF Idle

LEMMA WorkersMove ==
  ASSUME PInv, NEW w \in Workers, NEW t, worker' = [worker EXCEPT ![w] = t]
  PROVE  worker'[w] = t /\ \A v \in Workers \ {w} : worker'[v] = worker[v]
  BY DEF PInv, IInv, TypeOK

LEMMA QueueStepKeeps == ASSUME PInv, NEW w \in Workers, QueueStep(w) PROVE PInv'
<1>1. /\ RetireStranded(w) \/ TakeOldest(w) \/ CommitOutcome(w)
      /\ hand' = hand /\ UNCHANGED <<src, lock, orphan>>
  BY DEF QueueStep, pvars
<1>2. [Next]_vars
  BY <1>1 DEF Next, Turn
<1>3. worker[w].at \in {"idle", "retired", "reported"}
  BY <1>1 DEF RetireStranded, TakeOldest, CommitOutcome
<1>4. hand[w] \in Handler /\ hand[w].at = "out" /\ hand' = [hand EXCEPT ![w] = hand[w]]
  BY <1>1, <1>3, KnownOfWorker DEF PInv, PTypeOK
<1>5. /\ worker'[w].at \notin {"handling", "reported"}
      /\ \A v \in Workers \ {w} : worker'[v] = worker[v]
  <2>1. worker \in [Workers -> Turns] /\ worker[w] \in Turns
    BY DEF PInv, IInv, TypeOK
  <2>2. CASE RetireStranded(w)
    BY <2>1, <2>2 DEF RetireStranded, Idle
  <2>3. CASE TakeOldest(w)
    BY <2>1, <2>3 DEF TakeOldest, Turns
  <2>4. CASE CommitOutcome(w)
    BY <2>1, <2>4 DEF CommitOutcome, Idle
  <2> QED
    BY <1>1, <2>2, <2>3, <2>4
<1>6. \A j \in Jobs : jobs'[j].status = "SUCCEEDED" => src[j].status \in Final
  <2>1. CASE UNCHANGED jobs
    BY <2>1 DEF PInv, JobDoneMeansFinal
  <2>2. CASE CommitOutcome(w)
    <3> DEFINE k == worker[w].job
    <3>1. jobs \in [Jobs -> Rows] /\ k \in Jobs
      BY <2>2, KnownOfWorker DEF CommitOutcome, PInv, IInv, TypeOK
    <3>2. jobs' = [jobs EXCEPT ![k] = Outcome(jobs[k], worker[w].ok)]
      BY <2>2 DEF CommitOutcome
    <3>3. \A j \in Jobs \ {k} : jobs'[j] = jobs[j]
      BY <3>1, <3>2
    <3>4. Outcome(jobs[k], worker[w].ok).status = "SUCCEEDED" => worker[w].ok
      BY <3>1 DEF Outcome, Rows
    <3>5. worker[w].ok => src[k].status \in Final
      BY <2>2 DEF CommitOutcome, PInv, HandsKnow
    <3>6. jobs'[k] = Outcome(jobs[k], worker[w].ok)
      BY <3>1, <3>2
    <3> HIDE DEF k
    <3> QED
      BY <3>3, <3>4, <3>5, <3>6 DEF PInv, JobDoneMeansFinal
  <2> QED
    BY <1>1, <2>1, <2>2 DEF RetireStranded, TakeOldest
<1> QED
  BY <1>1, <1>2, <1>4, <1>5, <1>6, QueueTurns

LEMMA BeginJobKeeps == ASSUME PInv, NEW w \in Workers, BeginJob(w) PROVE PInv'
<1> DEFINE h == IF worker[w].job = None THEN Out ELSE Go("lock", 0, FALSE)
<1>1. CommitClaim(w) /\ hand' = [hand EXCEPT ![w] = h] /\ UNCHANGED <<src, lock, orphan>>
  BY DEF BeginJob
<1>2. [Next]_vars
  BY <1>1 DEF Next, Turn
<1>3. /\ h \in Handler /\ h.ok = FALSE
      /\ worker[w].job = None => h.at = "out"
      /\ worker[w].job # None => h.at = "lock"
  <2>1. CASE worker[w].job = None
    BY <2>1, OutFits
  <2>2. CASE worker[w].job # None
    BY <2>2, Unencumbered
  <2> QED
    BY <2>1, <2>2
<1>4. /\ worker[w].job = None => worker'[w].at = "idle"
      /\ worker[w].job # None => worker'[w].at = "handling"
      /\ \A v \in Workers \ {w} : worker'[v] = worker[v]
  <2>1. CASE worker[w].job = None
    <3>1. worker' = [worker EXCEPT ![w] = Idle]
      BY <1>1, <2>1 DEF CommitClaim
    <3> QED
      BY <2>1, <3>1, WorkersMove, AtRest
  <2>2. CASE worker[w].job # None
    <3> DEFINE t == [at |-> "handling", stranded |-> {}, job |-> worker[w].job,
                     epoch |-> claims[worker[w].job] + 1, ok |-> FALSE]
    <3>1. worker' = [worker EXCEPT ![w] = t]
      BY <1>1, <2>2 DEF CommitClaim
    <3>2. t.at = "handling"
      OBVIOUS
    <3> HIDE DEF t
    <3> QED
      BY <2>2, <3>1, <3>2, WorkersMove
  <2> QED
    BY <2>1, <2>2
<1>5. \A j \in Jobs : jobs'[j].status = "SUCCEEDED" => src[j].status \in Final
  <2> SUFFICES ASSUME NEW j \in Jobs, jobs'[j].status = "SUCCEEDED" PROVE jobs[j].status = "SUCCEEDED"
    BY DEF PInv, JobDoneMeansFinal
  <2>1. jobs[j] \in Rows
    BY DEF PInv, IInv, TypeOK
  <2>2. Taken(jobs[j], w).status = "RUNNING" /\ Retired(jobs[j]).status = "DEAD_LETTER"
    BY <2>1 DEF Taken, Retired, Rows
  <2>3. jobs'[j] = IF j = worker[w].job THEN Taken(jobs[j], w)
                   ELSE IF j \in worker[w].stranded THEN Retired(jobs[j]) ELSE jobs[j]
    BY <1>1 DEF CommitClaim
  <2> QED
    BY <2>2, <2>3
<1> HIDE DEF h
<1>6. /\ h.at \in {"out", "lock"} /\ (h.at = "lock" => worker'[w].at = "handling")
      /\ worker'[w].at = "handling" => h.at = "lock" /\ h.ok = FALSE
      /\ worker'[w].at # "reported"
  BY <1>3, <1>4
<1> QED
  BY <1>1, <1>2, <1>3, <1>4, <1>5, <1>6, QueueTurns

LEMMA ReportKeeps == ASSUME PInv, NEW w \in Workers, Report(w) PROVE PInv'
<1>1. /\ ReportOutcome(w, hand[w].ok) \/ ReportRefused(w)
      /\ hand' = [hand EXCEPT ![w] = Out] /\ UNCHANGED <<src, lock, orphan>>
  BY DEF Report
<1>2. hand[w].ok \in BOOLEAN /\ worker[w].at = "handling" /\ worker[w].job \in Jobs
  BY <1>1, KnownOfWorker DEF ReportOutcome, ReportRefused, Handler
<1>3. [Next]_vars
  BY <1>1, <1>2 DEF Next, Turn
<1>4. hand[w].ok => src[worker[w].job].status \in Final
  BY <1>2, KnownOfWorker DEF HandKnows
<1>5. /\ \A v \in Workers \ {w} : worker'[v] = worker[v]
      /\ worker'[w].at # "handling"
      /\ worker'[w].at = "reported" /\ worker'[w].ok => src[worker'[w].job].status \in Final
  <2>1. CASE ReportRefused(w)
    <3>1. worker' = [worker EXCEPT ![w] = Idle]
      BY <2>1 DEF ReportRefused
    <3> QED
      BY <3>1, WorkersMove, AtRest
  <2>2. CASE ReportOutcome(w, hand[w].ok)
    <3> DEFINE t == [worker[w] EXCEPT !.at = "reported", !.ok = hand[w].ok]
    <3>1. worker \in [Workers -> Turns] /\ worker[w] \in Turns
      BY DEF PInv, IInv, TypeOK
    <3>2. t.at = "reported" /\ t.ok = hand[w].ok /\ t.job = worker[w].job
      BY <3>1 DEF Turns
    <3>3. worker' = [worker EXCEPT ![w] = t]
      BY <2>2, <3>1 DEF ReportOutcome
    <3> HIDE DEF t
    <3> QED
      BY <1>4, <3>2, <3>3, WorkersMove
  <2> QED
    BY <1>1, <2>1, <2>2
<1>6. \A j \in Jobs : jobs'[j].status = "SUCCEEDED" => src[j].status \in Final
  BY <1>1 DEF ReportOutcome, ReportRefused, PInv, JobDoneMeansFinal
<1> QED
  BY <1>1, <1>3, <1>5, <1>6, OutFits, QueueTurns

\* A process that dies at a step held the lock of its source: nobody else works on it.
LEMMA DieKeeps == ASSUME PInv, NEW w \in Workers, Die(w) PROVE PInv'
<1> DEFINE j == worker[w].job
<1>1. Abandon(w) /\ hand' = [hand EXCEPT ![w] = Out] /\ lock' = Released(w) /\ UNCHANGED src
  BY DEF Die
<1>2. [Next]_vars
  BY <1>1 DEF Next, Turn
<1>3. /\ \A v \in Workers \ {w} : worker'[v] = worker[v]
      /\ worker'[w].at = "idle" /\ UNCHANGED jobs
  BY <1>1, WorkersMove, AtRest DEF Abandon
<1>4. /\ lock' \in [Jobs -> Workers \cup {None}]
      /\ \A v \in Workers \ {w}, i \in Jobs : lock[i] = v => lock'[i] = v
  BY <1>1, LetsGo
<1>5. \A i \in Jobs : jobs'[i].status = "SUCCEEDED" => src[i].status \in Final
  BY <1>3 DEF PInv, JobDoneMeansFinal
<1>6. CASE UNCHANGED orphan
  <2>1. /\ orphan' \in [Jobs -> Steps \cup {"none", "landed"}] /\ OrphansKnow'
        /\ \A v \in Workers \ {w} :
             worker[v].at = "handling" => HandKnows(hand[v], src[worker[v].job], orphan'[worker[v].job] \in Steps)
    BY <1>1, <1>6, KnownOfWorker DEF PInv, PTypeOK, OrphansKnow
  <2> QED
    BY <1>1, <1>2, <1>3, <1>4, <1>5, <2>1, OutFits, WorkerTurns
<1>7. CASE /\ worker[w].at = "handling" /\ orphan[j] \notin Steps
           /\ Outcomes(hand[w].at, src[j]) # {}
           /\ orphan' = [orphan EXCEPT ![j] = hand[w].at]
  <2>1. j \in Jobs /\ hand[w] \in Handler /\ HandKnows(hand[w], src[j], orphan[j] \in Steps)
    BY <1>7, KnownOfWorker
  <2>2. hand[w].at \in Steps
    BY <1>7, <2>1, NoOutcomes DEF Handler, Steps
  <2>3. /\ orphan' \in [Jobs -> Steps \cup {"none", "landed"}] /\ orphan'[j] = hand[w].at
        /\ \A i \in Jobs \ {j} : orphan'[i] = orphan[i]
    BY <1>7, <2>1, <2>2 DEF PInv, PTypeOK
  <2>4. OrphansKnow'
    BY <1>1, <2>1, <2>3 DEF PInv, OrphansKnow, HandKnows
  <2>5. lock[j] = w
    BY <2>2, KnownOfWorker
  <2>6. ASSUME NEW v \in Workers \ {w}, worker[v].at = "handling"
        PROVE  HandKnows(hand[v], src[worker[v].job], orphan'[worker[v].job] \in Steps)
    <3>1. HandKnows(hand[v], src[worker[v].job], orphan[worker[v].job] \in Steps) /\ worker[v].job \in Jobs
      BY <2>6, KnownOfWorker
    <3>2. CASE worker[v].job # j
      BY <2>3, <3>1, <3>2
    <3>3. CASE worker[v].job = j
      <4>1. hand[v].at \notin Steps \cup {"look"}
        BY <2>5, <2>6, <3>3, KnownOfWorker
      <4> QED
        BY <3>1, <4>1 DEF HandKnows, Staged, Steps
    <3> QED
      BY <3>2, <3>3
  <2> HIDE DEF j
  <2> QED
    BY <1>1, <1>2, <1>3, <1>4, <1>5, <2>3, <2>4, <2>6, OutFits, WorkerTurns
<1> QED
  BY <1>6, <1>7 DEF Die

-----------------------------------------------------------------------------
(* The ledger moves without a handler.                                     *)

LEMMA LedgerMoves ==
  ASSUME PInv, UNCHANGED <<vars, lock, hand>>, NEW j \in Jobs, NEW rec \in Source, Keyed(rec),
         src' = [src EXCEPT ![j] = rec],
         src[j].status \in Final => rec.status \in Final,
         orphan' \in [Jobs -> Steps \cup {"none", "landed"}],
         \A i \in Jobs \ {j} : orphan'[i] = orphan[i],
         orphan'[j] \in Staged => Begins(orphan'[j], rec) \/ Overtaken(orphan'[j], rec),
         \A w \in Workers :
           worker[w].at = "handling" /\ worker[w].job = j => HandKnows(hand[w], rec, orphan'[j] \in Steps)
  PROVE  PInv'
<1>1. /\ src' \in [Jobs -> Source] /\ src'[j] = rec
      /\ \A i \in Jobs \ {j} : src'[i] = src[i]
  BY SourceType DEF PInv
<1>2. UNCHANGED <<jobs, worker, claims, retries>>
  BY DEF vars
<1>3. \A i \in Jobs : src[i].status \in Final => src'[i].status \in Final
  BY <1>1
<1>4. IInv'
  BY InvStep DEF PInv, vars
<1>5. PTypeOK'
  <2>1. TypeOK'
    BY <1>4 DEF IInv
  <2> QED
    BY <1>1, <2>1, StatusesAre DEF PInv, PTypeOK, Source
<1>6. HandsKnow'
  <2> SUFFICES ASSUME NEW w \in Workers
               PROVE  /\ hand[w].at # "out" => worker[w].at = "handling"
                      /\ worker[w].at = "handling" =>
                           HandKnows(hand[w], src'[worker[w].job], orphan'[worker[w].job] \in Steps)
                      /\ worker[w].at = "reported" /\ worker[w].ok => src'[worker[w].job].status \in Final
    BY <1>2 DEF HandsKnow
  <2>1. worker[w].at \in {"handling", "reported"} => worker[w].job \in Jobs
    BY KnownOfWorker
  <2>2. ASSUME worker[w].at = "handling"
        PROVE  HandKnows(hand[w], src'[worker[w].job], orphan'[worker[w].job] \in Steps)
    <3>1. CASE worker[w].job = j
      BY <1>1, <2>2, <3>1
    <3>2. CASE worker[w].job # j
      <4>1. /\ src'[worker[w].job] = src[worker[w].job]
            /\ orphan'[worker[w].job] = orphan[worker[w].job]
        BY <1>1, <2>1, <2>2, <3>2
      <4> QED
        BY <2>2, <4>1, KnownOfWorker
    <3> QED
      BY <3>1, <3>2
  <2>3. worker[w].at = "reported" /\ worker[w].ok => src'[worker[w].job].status \in Final
    BY <1>3, <2>1 DEF PInv, HandsKnow
  <2> QED
    BY <2>2, <2>3, KnownOfWorker
<1>7. LockHeld'
  BY <1>2 DEF PInv, LockHeld
<1>8. OrphansKnow'
  BY <1>1 DEF PInv, OrphansKnow
<1>9. JobDoneMeansFinal' /\ \A i \in Jobs : Keyed(src'[i])
  BY <1>1, <1>2, <1>3 DEF PInv, JobDoneMeansFinal
<1> QED
  BY <1>4, <1>5, <1>6, <1>7, <1>8, <1>9 DEF PInv

LEMMA RecordIntentKeeps == ASSUME PInv, NEW j \in Jobs, RecordIntent(j) PROVE PInv'
<1> DEFINE rec == [src[j] EXCEPT !.status = "PENDING"]
<1>1. src[j] \in Source /\ Keyed(src[j]) /\ src[j].status = "NONE" /\ src \in [Jobs -> Source]
  BY KnownOfSource DEF RecordIntent
<1>2. src' = [src EXCEPT ![j] = rec] /\ UNCHANGED <<vars, lock, hand, orphan>>
  BY <1>1 DEF RecordIntent
<1>3. /\ rec \in Source /\ rec.status = "PENDING" /\ rec.run = src[j].run
      /\ rec.belief = src[j].belief /\ rec.times = src[j].times
  BY <1>1 DEF Source, LedgerStatuses
<1> HIDE DEF rec
<1>4. Keyed(rec)
  BY <1>1, <1>3 DEF Keyed
<1>5. \A at \in Staged : ~Begins(at, src[j]) /\ ~Overtaken(at, src[j])
  BY <1>1 DEF Begins, Overtaken
<1>6. orphan \in [Jobs -> Steps \cup {"none", "landed"}] /\ orphan[j] \notin Staged
  BY <1>5 DEF PInv, PTypeOK, OrphansKnow
<1>7. ASSUME NEW w \in Workers, worker[w].at = "handling", worker[w].job = j
      PROVE  HandKnows(hand[w], rec, orphan[j] \in Steps)
  <2>1. HandKnows(hand[w], src[j], orphan[j] \in Steps)
    BY <1>7, KnownOfWorker
  <2>2. hand[w].at \notin Staged
    BY <1>5, <2>1 DEF HandKnows
  <2>3. hand[w].at = "look" => hand[w].stage = 1
    BY <1>1, <2>1, Ranks DEF HandKnows
  <2>4. ~(hand[w].ok \/ hand[w].at \in {"projected", "clear"})
    BY <1>1, <2>1 DEF HandKnows, Final
  <2> QED
    BY <2>2, <2>3, <2>4 DEF HandKnows
<1>8. src[j].status \notin Final
  BY <1>1 DEF Final
<1> QED
  BY <1>2, <1>3, <1>4, <1>6, <1>7, <1>8, LedgerMoves

LEMMA LandKeeps == ASSUME PInv, NEW j \in Jobs, Land(j) PROVE PInv'
<1> DEFINE at == orphan[j]
<1>1. PICK o \in Outcomes(at, src[j]) : src' = [src EXCEPT ![j] = o[1]]
  BY DEF Land
<1>2. /\ at \in Steps /\ orphan' = [orphan EXCEPT ![j] = "landed"] /\ UNCHANGED <<vars, lock, hand>>
  BY DEF Land
<1>3. /\ orphan \in [Jobs -> Steps \cup {"none", "landed"}]
      /\ src[j] \in Source /\ Keyed(src[j]) /\ src \in [Jobs -> Source]
  BY KnownOfSource DEF PInv, PTypeOK
<1>4. /\ orphan' \in [Jobs -> Steps \cup {"none", "landed"}] /\ orphan'[j] = "landed"
      /\ \A i \in Jobs \ {j} : orphan'[i] = orphan[i]
  BY <1>2, <1>3
<1>5. "landed" \notin Steps /\ "landed" \notin Staged
  BY DEF Staged, Steps
<1>6. CASE at \in Staged
  <2>1. Ready(at, src[j]) /\ at \notin {"projected", "clear"}
    BY <1>3, <1>6 DEF Ready, PInv, OrphansKnow, Staged
  <2>2. Carried(at, src[j], o)
    BY <1>1, <1>2, <2>1, StepCarried
  <2>3. o[1] \in Source /\ Keyed(o[1]) /\ (src[j].status \in Final => o[1].status \in Final)
    BY <2>2 DEF Carried
  <2>4. ASSUME NEW w \in Workers, worker[w].at = "handling", worker[w].job = j
        PROVE  HandKnows(hand[w], o[1], orphan'[j] \in Steps)
    <3>1. hand[w] \in Handler /\ HandKnows(hand[w], src[j], orphan[j] \in Steps)
      BY <2>4, KnownOfWorker
    <3>2. orphan[j] \in Steps /\ orphan'[j] \notin Steps
      BY <1>2, <1>4, <1>5
    <3>3. HandKnows(hand[w], src[j], TRUE)
      BY <3>1, <3>2 DEF HandKnows
    <3>4. HandKnows(hand[w], o[1], FALSE)
      BY <1>3, <1>6, <2>2, <3>1, <3>3, LandsKnowing
    <3> QED
      BY <3>2, <3>4 DEF HandKnows
  <2> HIDE DEF at
  <2> QED
    BY <1>1, <1>2, <1>4, <1>5, <2>3, <2>4, LedgerMoves
<1>7. CASE at \notin Staged
  <2>1. at \in {"projected", "clear"}
    BY <1>2, <1>7 DEF Staged
  <2>2. o = <<src[j], Go("unlock", 0, TRUE)>>
    BY <1>1, <2>1, OutcomesOf
  <2>3. o[1] = src[j]
    BY <2>2
  <2>4. ASSUME NEW w \in Workers, worker[w].at = "handling", worker[w].job = j
        PROVE  HandKnows(hand[w], o[1], orphan'[j] \in Steps)
    <3>1. HandKnows(hand[w], src[j], orphan[j] \in Steps)
      BY <2>4, KnownOfWorker
    <3>2. orphan'[j] \notin Steps
      BY <1>4, <1>5
    <3> QED
      BY <2>3, <3>1, <3>2 DEF HandKnows
  <2> HIDE DEF at
  <2> QED
    BY <1>1, <1>2, <1>3, <1>4, <1>5, <2>3, <2>4, LedgerMoves
<1> QED
  BY <1>6, <1>7

-----------------------------------------------------------------------------
(* The invariant.                                                          *)

LEMMA NoSourceFits ==
  /\ NoSource \in Source /\ Keyed(NoSource) /\ NoSource.status = "NONE" /\ NoSource.run = "none"
  /\ NoSource.belief = "none" /\ NoSource.open = 0 /\ NoSource.unknowns = 0
  /\ \A e \in Effects : NoSource.times[e] = 0
<1>1. [e \in Effects |-> 0] \in [Effects -> Nat]
  OBVIOUS
<1>2. NoSource.times["claims"] = 0 /\ NoSource.times["apply"] = 0
  BY DEF NoSource, Effects
<1> QED
  BY <1>1, <1>2 DEF NoSource, Source, LedgerStatuses, BeliefStatuses, Keyed

LEMMA Begun == PInit => PInv
<1> SUFFICES ASSUME PInit PROVE PInv
  OBVIOUS
<1>1. IInv
  BY InvInit DEF PInit
<1>2. /\ \A j \in Jobs : /\ src[j] = NoSource /\ lock[j] = None /\ orphan[j] = "none"
                         /\ jobs[j] = NoRow
      /\ \A w \in Workers : hand[w] = Out /\ worker[w] = Idle
  BY DEF PInit, Init
<1>4. PTypeOK
  <2>1. TypeOK
    BY <1>1 DEF IInv
  <2>2. src \in [Jobs -> Source]
    BY NoSourceFits DEF PInit
  <2> QED
    BY <2>1, <2>2, StatusesAre, OutFits DEF PInit, PTypeOK, Source
<1>5. HandsKnow /\ LockHeld
  <2>1. "out" \notin Steps \cup {"look"} /\ Idle.at = "idle"
    BY DEF Steps, Idle
  <2> QED
    BY <1>2, <2>1, OutFits DEF HandsKnow, LockHeld
<1>6. OrphansKnow
  BY <1>2 DEF OrphansKnow, Staged, Steps
<1>7. JobDoneMeansFinal
  BY <1>2 DEF JobDoneMeansFinal, NoRow
<1> QED
  BY <1>1, <1>2, <1>4, <1>5, <1>6, <1>7, NoSourceFits DEF PInv

LEMMA Stays == ASSUME PInv, UNCHANGED allVars PROVE PInv'
<1>1. UNCHANGED <<vars, src, lock, hand, orphan>>
  BY DEF allVars, pvars
<1>2. IInv'
  BY <1>1, InvStep DEF PInv
<1>3. TypeOK'
  BY <1>2 DEF IInv
<1> QED
  BY <1>1, <1>2, <1>3 DEF PInv, PTypeOK, HandsKnow, LockHeld, OrphansKnow, JobDoneMeansFinal, vars

LEMMA NextKeeps == PInv /\ [PNext]_allVars => PInv'
<1> SUFFICES ASSUME PInv, [PNext]_allVars PROVE PInv'
  OBVIOUS
<1>1. CASE UNCHANGED allVars
  BY <1>1, Stays
<1>2. ASSUME NEW j \in Jobs, RecordIntent(j) PROVE PInv'
  BY <1>2, RecordIntentKeeps
<1>3. ASSUME NEW j \in Jobs, Land(j) PROVE PInv'
  BY <1>3, LandKeeps
<1>4. ASSUME NEW j \in Jobs, RetryDeadLetterJob(j) \/ LeaseExpires(j), UNCHANGED pvars PROVE PInv'
  BY <1>4, OperationsKeep
<1>5. ASSUME NEW w \in Workers, NEW j \in Jobs, Dispatch(w, j) PROVE PInv'
  BY <1>5, DispatchKeeps
<1>6. ASSUME NEW w \in Workers, QueueStep(w) PROVE PInv'
  BY <1>6, QueueStepKeeps
<1>7. ASSUME NEW w \in Workers, BeginJob(w) PROVE PInv'
  BY <1>7, BeginJobKeeps
<1>8. ASSUME NEW w \in Workers, Handle(w) PROVE PInv'
  <2>1. \/ TakeLock(w) \/ Look(w) \/ Work(w) \/ AnswerLost(w)
        \/ Fail(w) \/ RecordError(w) \/ Unlock(w)
    BY <1>8 DEF Handle
  <2> QED
    BY <2>1, TakeLockKeeps, LookKeeps, WorkKeeps, AnswerLostKeeps, GivesUpKeeps, UnlockKeeps
<1>9. ASSUME NEW w \in Workers, Report(w) PROVE PInv'
  BY <1>9, ReportKeeps
<1>10. ASSUME NEW w \in Workers, Die(w) PROVE PInv'
  BY <1>10, DieKeeps
<1> QED
  BY <1>1, <1>2, <1>3, <1>4, <1>5, <1>6, <1>7, <1>8, <1>9, <1>10 DEF PNext

\* Whatever dies and whatever lands late, a handler at a step of a stage has the lock
\* and finds its source as that stage begins, or as an overtaken COMMIT of it left it.
THEOREM ProcessingInvariant == PSpec => []PInv
<1>1. PInit => PInv
  BY Begun
<1>2. PInv /\ [PNext]_allVars => PInv'
  BY NextKeeps
<1> QED
  BY <1>1, <1>2, PTL DEF PSpec

\* Extraction and governance are carried out at most once for each source, with every
\* crash and every COMMIT that outlives its process, and a job that has succeeded has
\* carried its source to a final status.
THEOREM KeyedToTheEnd == PSpec => []KeyedAndComplete
<1>1. PInv => KeyedAndComplete
  <2> SUFFICES ASSUME PInv PROVE KeyedAndComplete
    OBVIOUS
  <2>1. \A j \in Jobs : src[j].times["claims"] \in {0, 1} /\ src[j].times["apply"] \in {0, 1}
    BY DEF PInv, Keyed
  <2>2. KeyedEffectsOnce
    BY <2>1 DEF KeyedEffectsOnce
  <2> QED
    BY <2>2 DEF PInv, KeyedAndComplete
<1> QED
  BY <1>1, ProcessingInvariant, PTL

\* The queue under the handlers is the queue of JobQueue: whatever a handler does, and
\* whenever it dies, no step of the composition moves the queue as the queue would not.
THEOREM QueueIsUnderneath == PSpec => QueueUnderneath
<1>1. PInit => Init
  BY DEF PInit
<1>2. PInv /\ [PNext]_allVars => [Next]_vars
  BY Underneath DEF PInv
<1> QED
  BY <1>1, <1>2, ProcessingInvariant, PTL DEF PSpec, QueueUnderneath, Spec

-----------------------------------------------------------------------------
(* The ledger goes forward.                                                *)

Forward(before, after) ==
  after.status # before.status => before.status \notin Final /\ Rank(after.status) = Rank(before.status) + 1

LEMMA LedgerAdvances == ASSUME PInv, PNext, NEW j \in Jobs PROVE Forward(src[j], src'[j])
<1>1. CASE src' = src
  BY <1>1 DEF Forward
<1>2. ASSUME NEW i \in Jobs, NEW at, NEW o, Carried(at, src[i], o), src' = [src EXCEPT ![i] = o[1]]
      PROVE  Forward(src[j], src'[j])
  <2>1. src'[j] = IF j = i THEN o[1] ELSE src[j]
    BY <1>2, KnownOfSource
  <2> QED
    BY <1>2, <2>1 DEF Carried, Forward
<1>3. ASSUME NEW i \in Jobs, RecordIntent(i) PROVE Forward(src[j], src'[j])
  <2> DEFINE rec == [src[i] EXCEPT !.status = "PENDING"]
  <2>1. src[i] \in Source /\ src \in [Jobs -> Source] /\ src[i].status = "NONE"
    BY <1>3, KnownOfSource DEF RecordIntent
  <2>2. rec.status = "PENDING" /\ src' = [src EXCEPT ![i] = rec]
    BY <1>3, <2>1 DEF RecordIntent, Source
  <2> HIDE DEF rec
  <2>3. src'[j] = IF j = i THEN rec ELSE src[j]
    BY <2>1, <2>2
  <2> QED
    BY <2>1, <2>2, <2>3, Ranks DEF Forward, Final
<1>4. ASSUME NEW i \in Jobs, Land(i) PROVE Forward(src[j], src'[j])
  <2>1. PICK o \in Outcomes(orphan[i], src[i]) : src' = [src EXCEPT ![i] = o[1]]
    BY <1>4 DEF Land
  <2>2. orphan[i] \in Steps /\ src[i] \in Source /\ Keyed(src[i]) /\ src \in [Jobs -> Source]
    BY <1>4, KnownOfSource DEF Land
  <2>3. CASE orphan[i] \in Staged
    <3>1. Ready(orphan[i], src[i]) /\ orphan[i] \notin {"projected", "clear"}
      BY <2>2, <2>3 DEF Ready, PInv, OrphansKnow, Staged
    <3>2. Carried(orphan[i], src[i], o)
      BY <2>1, <2>2, <3>1, StepCarried
    <3> QED
      BY <1>2, <2>1, <3>2
  <2>4. CASE orphan[i] \notin Staged
    <3>1. orphan[i] \in {"projected", "clear"}
      BY <2>2, <2>4 DEF Staged
    <3>2. o = <<src[i], Go("unlock", 0, TRUE)>>
      BY <2>1, <3>1, OutcomesOf
    <3>3. src' = src
      BY <2>1, <2>2, <3>2
    <3> QED
      BY <1>1, <3>3
  <2> QED
    BY <2>3, <2>4
<1>5. ASSUME NEW w \in Workers, Work(w) \/ AnswerLost(w) PROVE Forward(src[j], src'[j])
  <2>1. PICK o \in Outcomes(hand[w].at, src[worker[w].job]) : src' = [src EXCEPT ![worker[w].job] = o[1]]
    BY <1>5 DEF Work, AnswerLost
  <2>2. worker[w].job \in Jobs /\ Carried(hand[w].at, src[worker[w].job], o)
    BY <1>5, Working DEF Work, AnswerLost
  <2> QED
    BY <1>2, <2>1, <2>2
<1>6. ASSUME NEW w \in Workers,
             \/ QueueStep(w) \/ BeginJob(w) \/ Report(w) \/ Die(w)
             \/ TakeLock(w) \/ Look(w) \/ Fail(w) \/ RecordError(w) \/ Unlock(w)
      PROVE  src' = src
  BY <1>6 DEF QueueStep, BeginJob, Report, Die, TakeLock, Look, Fail, RecordError, Unlock, pvars
<1>7. ASSUME NEW w \in Workers, NEW i \in Jobs, Dispatch(w, i) PROVE src' = src
  BY <1>7 DEF Dispatch, pvars
<1>8. ASSUME UNCHANGED pvars PROVE src' = src
  BY <1>8 DEF pvars
<1> QED
  BY <1>1, <1>3, <1>4, <1>5, <1>6, <1>7, <1>8 DEF PNext, Handle

\* The ledger of a source goes forward one stage at a time and never leaves a final
\* status, also where a COMMIT lands after another handler has begun the stage again.
THEOREM LedgerGoesForward == PSpec => LedgerForward
<1>1. PInv /\ [PNext]_allVars =>
        [\A j \in Jobs :
           src'[j].status # src[j].status =>
             src[j].status \notin Final /\ Rank(src'[j].status) = Rank(src[j].status) + 1]_allVars
  BY LedgerAdvances DEF Forward
<1> QED
  BY <1>1, ProcessingInvariant, PTL DEF PSpec, LedgerForward

-----------------------------------------------------------------------------
(* In time, every stage once.                                              *)

RowExact(rec) ==
  /\ StagesExact(rec) /\ GovernedMeansCommitted(rec) /\ UnresolvedExact(rec)
  /\ Rank(rec.status) < 4 => rec.open = rec.unknowns

\* What the handler at a step knows of its source, and what it leaves to the next step.
InTime(at, rec) ==
  at \in Staged => /\ Begins(at, rec)
                   /\ at = "govern" /\ rec.asserts => rec.belief = "COMMITTED"

LEMMA TimesMove ==
  ASSUME NEW rec \in Source, NEW e \in Effects, NEW f \in Effects
  PROVE  Once(rec, e)[f] = rec.times[f] + (IF e = f THEN 1 ELSE 0)
<1>1. CASE e = f
  BY <1>1, TimesOf
<1>2. CASE e # f
  <2>1. rec.times[f] \in Nat
    BY DEF Source
  <2> QED
    BY <1>2, <2>1, TimesOf
<1> QED
  BY <1>1, <1>2

LEMMA EffectsAre ==
  /\ "claims" \in Effects /\ "canonicalize" \in Effects /\ "apply" \in Effects /\ "project" \in Effects
  BY DEF Effects

LEMMA ExactClaims ==
  ASSUME NEW rec \in Source, RowExact(rec), Begins("claims", rec), NEW o \in Outcomes("claims", rec)
  PROVE  RowExact(o[1]) /\ o[2].at = "mark"
<1> DEFINE after(u) == [rec EXCEPT !.run = "SUCCEEDED", !.unknowns = u, !.open = u, !.times = Once(rec, "claims")]
<1>1. o \in Claims(rec)
  BY OutcomesOf
<1>2. rec.run # "SUCCEEDED" /\ \E u \in {0, 1} : o = <<after(u), Go("mark", 0, FALSE)>>
  BY <1>1 DEF Claims
<1>3. PICK u \in {0, 1} : o = <<after(u), Go("mark", 0, FALSE)>>
  BY <1>2
<1>4. rec.status = "PENDING"
  BY DEF Begins
<1>5. /\ after(u).status = rec.status /\ after(u).run = "SUCCEEDED" /\ after(u).unknowns = u /\ after(u).open = u
      /\ after(u).asserts = rec.asserts /\ after(u).belief = rec.belief /\ after(u).times = Once(rec, "claims")
      /\ after(u).unresolved = rec.unresolved
  BY DEF Source
<1>6. o[1] = after(u) /\ o[2].at = "mark"
  BY <1>3 DEF Go
<1> HIDE DEF after
<1>7. /\ Once(rec, "claims")["claims"] = rec.times["claims"] + 1
      /\ Once(rec, "claims")["canonicalize"] = rec.times["canonicalize"]
      /\ Once(rec, "claims")["apply"] = rec.times["apply"]
      /\ Once(rec, "claims")["project"] = rec.times["project"]
  BY TimesOf, EffectsAre
<1>8. StagesExact(after(u))
  BY <1>2, <1>4, <1>5, <1>7, Ranks DEF RowExact, StagesExact
<1>9. GovernedMeansCommitted(after(u)) /\ UnresolvedExact(after(u))
  BY <1>4, <1>5, Ranks DEF GovernedMeansCommitted, UnresolvedExact, Final
<1> QED
  BY <1>5, <1>6, <1>8, <1>9 DEF RowExact

LEMMA ExactMark ==
  ASSUME NEW rec \in Source, RowExact(rec), Begins("mark", rec), NEW o \in Outcomes("mark", rec)
  PROVE  RowExact(o[1]) /\ o[2].at = "look"
<1> DEFINE after == [rec EXCEPT !.status = "EXTRACTED", !.unresolved = rec.unknowns]
<1>1. o = <<after, Go("look", 2, FALSE)>>
  BY OutcomesOf DEF MarkExtracted
<1>2. rec.status = "PENDING"
  BY DEF Begins
<1>3. /\ after.status = "EXTRACTED" /\ after.run = rec.run /\ after.unknowns = rec.unknowns
      /\ after.open = rec.open /\ after.unresolved = rec.unknowns
      /\ after.asserts = rec.asserts /\ after.belief = rec.belief /\ after.times = rec.times
  BY DEF Source
<1>4. o[1] = after /\ o[2].at = "look"
  BY <1>1 DEF Go
<1> HIDE DEF after
<1>5. StagesExact(after)
  BY <1>2, <1>3, Ranks DEF RowExact, StagesExact, Final
<1>6. GovernedMeansCommitted(after) /\ UnresolvedExact(after)
  BY <1>2, <1>3, Ranks DEF RowExact, GovernedMeansCommitted, UnresolvedExact, Final
<1> QED
  BY <1>2, <1>3, <1>4, <1>5, <1>6, Ranks DEF RowExact

LEMMA ExactCanonicalize ==
  ASSUME NEW rec \in Source, RowExact(rec), Begins("canonicalize", rec), NEW o \in Outcomes("canonicalize", rec)
  PROVE  RowExact(o[1]) /\ o[2].at = "look"
<1> DEFINE after(a, u) == [rec EXCEPT !.status = "CANONICALIZED", !.asserts = a, !.unresolved = rec.unresolved + u,
                             !.open = rec.unknowns + u, !.times = Once(rec, "canonicalize")]
<1>1. \E a \in BOOLEAN, u \in {0, 1} : o = <<after(a, u), Go("look", 3, FALSE)>>
  <2> DEFINE booleans == BOOLEAN
             next == Go("look", 3, FALSE)
  <2>1. o \in Canonicalize(rec)
    BY OutcomesOf
  <2>2. Canonicalize(rec) = {<<after(a, u), next>> : a \in booleans, u \in {0, 1}}
    BY DEF Canonicalize
  <2>3. \E a \in booleans, u \in {0, 1} : o = <<after(a, u), next>>
    <3> HIDE DEF after, booleans, next
    <3> QED
      BY <2>1, <2>2
  <2> QED
    BY <2>3
<1>2. PICK a \in BOOLEAN, u \in {0, 1} : o = <<after(a, u), Go("look", 3, FALSE)>>
  BY <1>1
<1>3. rec.status = "EXTRACTED"
  BY DEF Begins
<1>4. /\ after(a, u).status = "CANONICALIZED" /\ after(a, u).run = rec.run
      /\ after(a, u).open = rec.unknowns + u /\ after(a, u).unresolved = rec.unresolved + u
      /\ after(a, u).belief = rec.belief /\ after(a, u).times = Once(rec, "canonicalize")
  BY DEF Source
<1>5. o[1] = after(a, u) /\ o[2].at = "look"
  BY <1>2 DEF Go
<1> HIDE DEF after
<1>6. /\ Once(rec, "canonicalize")["claims"] = rec.times["claims"]
      /\ Once(rec, "canonicalize")["canonicalize"] = rec.times["canonicalize"] + 1
      /\ Once(rec, "canonicalize")["apply"] = rec.times["apply"]
      /\ Once(rec, "canonicalize")["project"] = rec.times["project"]
  BY TimesOf, EffectsAre
<1>7. StagesExact(after(a, u))
  BY <1>3, <1>4, <1>6, Ranks DEF RowExact, StagesExact, Final
<1>8. rec.unresolved = rec.unknowns
  BY <1>3, Ranks DEF RowExact, UnresolvedExact
<1>9. GovernedMeansCommitted(after(a, u)) /\ UnresolvedExact(after(a, u))
  BY <1>4, <1>8, Ranks DEF GovernedMeansCommitted, UnresolvedExact, Final
<1> QED
  BY <1>4, <1>5, <1>7, <1>9, Ranks DEF RowExact

\* The steps of the belief transaction leave the row as exact as it was.
LEMMA ExactBelief ==
  ASSUME NEW rec \in Source, RowExact(rec), rec.status = "CANONICALIZED",
         NEW after \in Source,
         after = rec
         \/ /\ rec.belief # "COMMITTED"
            /\ \E belief \in BeliefStatuses \ {"COMMITTED"} : after = [rec EXCEPT !.belief = belief]
         \/ /\ rec.belief # "COMMITTED"
            /\ after = [rec EXCEPT !.belief = "COMMITTED", !.times = Once(rec, "apply")]
  PROVE  RowExact(after)
<1>1. CASE after = rec
  BY <1>1
<1>2. CASE /\ rec.belief # "COMMITTED"
           /\ \E belief \in BeliefStatuses \ {"COMMITTED"} : after = [rec EXCEPT !.belief = belief]
  <2>1. /\ after.status = rec.status /\ after.run = rec.run /\ after.unresolved = rec.unresolved
        /\ after.open = rec.open /\ after.times = rec.times /\ after.belief # "COMMITTED"
    BY <1>2 DEF Source
  <2> QED
    BY <1>2, <2>1, Ranks DEF RowExact, StagesExact, GovernedMeansCommitted, UnresolvedExact, Final
<1>3. CASE /\ rec.belief # "COMMITTED"
           /\ after = [rec EXCEPT !.belief = "COMMITTED", !.times = Once(rec, "apply")]
  <2>1. /\ after.status = rec.status /\ after.run = rec.run /\ after.unresolved = rec.unresolved
        /\ after.open = rec.open /\ after.times = Once(rec, "apply") /\ after.belief = "COMMITTED"
    BY <1>3 DEF Source
  <2>2. /\ Once(rec, "apply")["claims"] = rec.times["claims"]
        /\ Once(rec, "apply")["canonicalize"] = rec.times["canonicalize"]
        /\ Once(rec, "apply")["apply"] = rec.times["apply"] + 1
        /\ Once(rec, "apply")["project"] = rec.times["project"]
    BY TimesOf, EffectsAre
  <2>3. StagesExact(after)
    BY <1>3, <2>1, <2>2 DEF RowExact, StagesExact
  <2> QED
    BY <2>1, <2>3, Ranks DEF RowExact, GovernedMeansCommitted, UnresolvedExact, Final
<1> QED
  BY <1>1, <1>2, <1>3

LEMMA ExactGovernance ==
  ASSUME NEW rec \in Source, Keyed(rec), RowExact(rec), NEW at \in {"propose", "validate", "decide", "apply"},
         Begins(at, rec), NEW o \in Outcomes(at, rec), o[1] \in Source
  PROVE  RowExact(o[1]) /\ (o[2].at = "govern" => o[1].belief = "COMMITTED")
<1>1. rec.status = "CANONICALIZED"
  BY DEF Begins
<1>2. CASE at = "propose"
  <2>1. o \in Propose(rec)
    BY <1>2, OutcomesOf
  <2>2. /\ o[1] = rec \/ (rec.belief = "none" /\ o[1] = [rec EXCEPT !.belief = "PROPOSED"])
        /\ o[2].at # "govern"
    BY <2>1 DEF Propose, Go
  <2> QED
    BY <1>1, <2>2, ExactBelief DEF BeliefStatuses
<1>3. CASE at = "validate"
  <2>1. o \in Validate(rec)
    BY <1>3, OutcomesOf
  <2>2. /\ rec.belief # "COMMITTED" /\ o[2].at # "govern"
        /\ o[1] = [rec EXCEPT !.belief = "VALIDATED"] \/ o[1] = [rec EXCEPT !.belief = "PROPOSED"]
    BY <2>1 DEF Validate, Go
  <2> QED
    BY <1>1, <2>2, ExactBelief DEF BeliefStatuses
<1>4. CASE at = "decide"
  <2>1. o \in Decide(rec)
    BY <1>4, OutcomesOf
  <2>2. \/ rec.belief = "COMMITTED" /\ o[1] = rec
        \/ /\ rec.belief # "COMMITTED" /\ o[2].at # "govern"
           /\ o[1] = [rec EXCEPT !.belief = "VALIDATED"] \/ o[1] = [rec EXCEPT !.belief = "REJECTED"]
    BY <2>1 DEF Decide, Go
  <2> QED
    BY <1>1, <2>2, ExactBelief DEF BeliefStatuses
<1>5. CASE at = "apply"
  <2>1. o \in Apply(rec)
    BY <1>5, OutcomesOf
  <2>2. \/ rec.belief = "COMMITTED" /\ o[1] = rec
        \/ rec.belief # "COMMITTED" /\ o[1] = [rec EXCEPT !.belief = "COMMITTED", !.times = Once(rec, "apply")]
    <3>1. CASE rec.belief = "COMMITTED"
      <4>1. o = <<rec, Go("govern", 0, FALSE)>>
        BY <2>1, <3>1 DEF Apply
      <4> QED
        BY <3>1, <4>1
    <3>2. CASE rec.belief # "COMMITTED"
      <4> DEFINE after == [rec EXCEPT !.belief = "COMMITTED", !.times = Once(rec, "apply")]
                 next == Go("govern", 0, FALSE)
      <4>1. o = <<after, next>>
        BY <2>1, <3>2 DEF Apply
      <4>2. o[1] = after
        <5> HIDE DEF after, next
        <5> QED
          BY <4>1
      <4> QED
        BY <3>2, <4>2
    <3> QED
      BY <3>1, <3>2
  <2>3. o[1].belief = "COMMITTED"
    BY <2>2 DEF Source
  <2> QED
    BY <1>1, <2>2, <2>3, ExactBelief
<1> QED
  BY <1>2, <1>3, <1>4, <1>5

LEMMA ExactGovern ==
  ASSUME NEW rec \in Source, RowExact(rec), InTime("govern", rec), NEW o \in Outcomes("govern", rec)
  PROVE  RowExact(o[1]) /\ o[2].at = "look"
<1> DEFINE after == [rec EXCEPT !.status = "GOVERNED"]
<1>1. o = <<after, Go("look", 4, FALSE)>>
  BY OutcomesOf
<1>2. rec.status = "CANONICALIZED" /\ (rec.asserts => rec.belief = "COMMITTED")
  BY DEF InTime, Begins, Staged, Steps
<1>3. /\ after.status = "GOVERNED" /\ after.run = rec.run /\ after.unresolved = rec.unresolved
      /\ after.open = rec.open /\ after.asserts = rec.asserts
      /\ after.belief = rec.belief /\ after.times = rec.times
  BY DEF Source
<1>4. o[1] = after /\ o[2].at = "look"
  BY <1>1 DEF Go
<1> HIDE DEF after
<1>5. StagesExact(after)
  BY <1>2, <1>3, Ranks DEF RowExact, StagesExact, Final
<1>6. GovernedMeansCommitted(after) /\ UnresolvedExact(after)
  BY <1>2, <1>3, Ranks DEF RowExact, GovernedMeansCommitted, UnresolvedExact, Final
<1> QED
  BY <1>3, <1>4, <1>5, <1>6, Ranks DEF RowExact

LEMMA ExactProject ==
  ASSUME NEW rec \in Source, RowExact(rec), Begins("project", rec), NEW o \in Outcomes("project", rec)
  PROVE  RowExact(o[1]) /\ o[2].at = "projected"
<1> DEFINE status == IF rec.unresolved > 0 THEN "NEEDS_REVIEW" ELSE "SUCCEEDED"
           after == [rec EXCEPT !.status = status, !.times = Once(rec, "project")]
<1>1. o = <<after, Go("projected", 0, TRUE)>>
  <2>1. Project(rec) = {<<after, Go("projected", 0, TRUE)>>}
    BY DEF Project
  <2> HIDE DEF after
  <2> QED
    BY <2>1, OutcomesOf
<1>2. rec.status = "GOVERNED"
  BY DEF Begins
<1>3. /\ after.status = status /\ after.run = rec.run /\ after.unresolved = rec.unresolved
      /\ after.open = rec.open /\ after.asserts = rec.asserts
      /\ after.belief = rec.belief /\ after.times = Once(rec, "project")
  BY DEF Source
<1>4. o[1] = after /\ o[2].at = "projected"
  <2>1. Go("projected", 0, TRUE).at = "projected"
    BY DEF Go
  <2> HIDE DEF after
  <2> QED
    BY <1>1, <2>1
<1> HIDE DEF after
<1>5. /\ Once(rec, "project")["claims"] = rec.times["claims"]
      /\ Once(rec, "project")["canonicalize"] = rec.times["canonicalize"]
      /\ Once(rec, "project")["apply"] = rec.times["apply"]
      /\ Once(rec, "project")["project"] = rec.times["project"] + 1
  BY TimesOf, EffectsAre
<1>6. status \in Final /\ Rank(status) = 6
  BY Ranks DEF Final
<1>7. StagesExact(after)
  BY <1>2, <1>3, <1>5, <1>6, Ranks DEF RowExact, StagesExact, Final
<1>8. rec.unresolved = rec.open /\ (rec.asserts => rec.belief = "COMMITTED") /\ rec.unresolved \in Nat
  BY <1>2, Ranks DEF RowExact, UnresolvedExact, GovernedMeansCommitted, Source
<1>9. GovernedMeansCommitted(after) /\ UnresolvedExact(after)
  BY <1>3, <1>6, <1>8 DEF GovernedMeansCommitted, UnresolvedExact
<1> QED
  BY <1>3, <1>4, <1>6, <1>7, <1>9 DEF RowExact

\* Any step, in time.
LEMMA StepExact ==
  ASSUME NEW at \in Steps, NEW rec \in Source, Keyed(rec), RowExact(rec), InTime(at, rec),
         NEW o \in Outcomes(at, rec), Carried(at, rec, o)
  PROVE  RowExact(o[1]) /\ InTime(o[2].at, o[1])
<1>1. at \in Staged => Begins(at, rec)
  BY DEF InTime
<1>2. o[1] \in Source /\ (o[2].at \in Staged /\ at \in Staged => Begins(o[2].at, o[1]))
  BY <1>1 DEF Carried
<1>3. CASE at = "extract"
  <2>1. o[1] = rec /\ o[2].at \in {"mark", "claims"}
    BY <1>3, OutcomesOf DEF Go
  <2> QED
    BY <1>2, <1>3, <2>1 DEF InTime, Staged, Steps
<1>4. CASE at = "claims"
  BY <1>1, <1>2, <1>4, ExactClaims DEF InTime, Staged, Steps
<1>5. CASE at = "mark"
  BY <1>1, <1>5, ExactMark DEF InTime, Staged, Steps
<1>6. CASE at = "canonicalize"
  BY <1>1, <1>6, ExactCanonicalize DEF InTime, Staged, Steps
<1>7. CASE at \in {"propose", "validate", "decide", "apply"}
  <2>1. at \in Staged
    BY <1>7 DEF Staged, Steps
  <2>2. RowExact(o[1]) /\ (o[2].at = "govern" => o[1].belief = "COMMITTED")
    BY <1>1, <1>2, <1>7, <2>1, ExactGovernance
  <2> QED
    BY <1>2, <2>1, <2>2 DEF InTime
<1>8. CASE at = "govern"
  BY <1>8, ExactGovern DEF InTime, Staged, Steps
<1>9. CASE at = "project"
  BY <1>1, <1>9, ExactProject DEF InTime, Staged, Steps
<1>10. CASE at \in {"projected", "clear"}
  <2>1. o = <<rec, Go("unlock", 0, TRUE)>>
    BY <1>10, OutcomesOf
  <2>2. o[1] = rec /\ o[2].at = "unlock"
    BY <2>1 DEF Go
  <2> QED
    BY <2>2 DEF InTime, Staged, Steps
<1> QED
  BY <1>3, <1>4, <1>5, <1>6, <1>7, <1>8, <1>9, <1>10 DEF Steps

LEMMA ExactlyKnown ==
  PInv => (EInv <=> /\ \A j \in Jobs : orphan[j] = "none" => RowExact(src[j])
                    /\ \A w \in Workers : orphan[worker[w].job] = "none" => InTime(hand[w].at, src[worker[w].job]))
  BY DEF EInv, ExactInTime, OpenCounted, InTimeKnows, RowExact, InTime

\* Some workers move, and a source in time is carried only while nobody else is at a
\* step of it.
LEMMA KeepsInTime ==
  ASSUME EInv, PInv', NEW movers \in SUBSET Workers,
         \A v \in Workers \ movers : hand'[v] = hand[v] /\ worker'[v] = worker[v],
         \A j \in Jobs : orphan'[j] = "none" => orphan[j] = "none",
         \A j \in Jobs : orphan'[j] = "none" /\ src'[j] # src[j] =>
           RowExact(src'[j]) /\ \A v \in Workers \ movers : worker[v].job = j => hand[v].at \notin Staged,
         \A v \in movers : orphan'[worker'[v].job] = "none" => InTime(hand'[v].at, src'[worker'[v].job])
  PROVE  EInv'
<1>1. PInv /\ \A j \in Jobs : orphan[j] = "none" => RowExact(src[j])
  BY ExactlyKnown DEF EInv
<1>2. \A w \in Workers : orphan[worker[w].job] = "none" => InTime(hand[w].at, src[worker[w].job])
  BY <1>1, ExactlyKnown
<1>3. \A j \in Jobs : orphan'[j] = "none" => RowExact(src'[j])
  BY <1>1
<1>4. ASSUME NEW v \in Workers, orphan'[worker'[v].job] = "none"
      PROVE  InTime(hand'[v].at, src'[worker'[v].job])
  <2>1. CASE v \in movers
    BY <1>4, <2>1
  <2>2. CASE v \notin movers /\ hand[v].at \in Staged
    <3>1. hand'[v] = hand[v] /\ worker'[v] = worker[v]
      BY <2>2
    <3>2. worker[v].job \in Jobs
      <4>1. hand[v].at # "out"
        BY <2>2 DEF Staged, Steps
      <4> QED
        BY <1>1, <4>1, KnownOfWorker
    <3>3. src'[worker[v].job] = src[worker[v].job] /\ orphan[worker[v].job] = "none"
      BY <1>4, <2>2, <3>1, <3>2
    <3> QED
      BY <1>2, <3>1, <3>3
  <2>3. CASE v \notin movers /\ hand[v].at \notin Staged
    BY <2>3 DEF InTime
  <2> QED
    BY <2>1, <2>2, <2>3
<1> QED
  BY <1>3, <1>4 DEF EInv, ExactInTime, OpenCounted, InTimeKnows, RowExact, InTime

\* What a worker with the lock finds, nobody else is at a step of.
LEMMA AloneAtSteps ==
  ASSUME PInv, NEW w \in Workers, hand[w].at \in Steps
  PROVE  \A v \in Workers \ {w} : worker[v].job = worker[w].job => hand[v].at \notin Staged
  BY KnownOfWorker DEF Staged

LEMMA WorkExact == ASSUME EInv, PInv', NEW w \in Workers, Work(w) \/ AnswerLost(w) PROVE EInv'
<1> DEFINE j == worker[w].job
<1>1. PICK o \in Outcomes(hand[w].at, src[j]) :
        /\ src' = [src EXCEPT ![j] = o[1]]
        /\ hand' = [hand EXCEPT ![w] = o[2]] \/ hand' = [hand EXCEPT ![w] = Go("failed", 0, FALSE)]
  BY DEF Work, AnswerLost
<1>2. PInv /\ UNCHANGED <<worker, orphan>>
  BY DEF EInv, Work, AnswerLost, vars
<1>3. j \in Jobs /\ hand[w].at \in Steps /\ Carried(hand[w].at, src[j], o)
  BY <1>2, Working DEF Work, AnswerLost
<1>4. src[j] \in Source /\ Keyed(src[j]) /\ src \in [Jobs -> Source]
  BY <1>2, <1>3, KnownOfSource
<1>5. orphan[j] = "none" => RowExact(src[j]) /\ InTime(hand[w].at, src[j])
  BY <1>2, <1>3, ExactlyKnown
<1>6. orphan[j] = "none" => RowExact(o[1]) /\ InTime(o[2].at, o[1])
  BY <1>3, <1>4, <1>5, StepExact
<1>7. /\ src'[j] = o[1] /\ \A i \in Jobs \ {j} : src'[i] = src[i]
      /\ \A v \in Workers \ {w} : hand'[v] = hand[v]
      /\ hand'[w] = o[2] \/ hand'[w].at = "failed"
  <2>1. Go("failed", 0, FALSE).at = "failed"
    BY DEF Go
  <2>2. hand \in [Workers -> Handler]
    BY <1>2 DEF PInv, PTypeOK
  <2> QED
    BY <1>1, <1>3, <1>4, <2>1, <2>2
<1>8. orphan[j] = "none" => InTime(hand'[w].at, src'[j])
  BY <1>6, <1>7 DEF InTime, Staged, Steps
<1>9. \A v \in Workers \ {w} : worker[v].job = j => hand[v].at \notin Staged
  BY <1>2, <1>3, AloneAtSteps
<1> HIDE DEF j
<1>10. \A i \in Jobs : orphan'[i] = "none" /\ src'[i] # src[i] =>
         RowExact(src'[i]) /\ \A v \in Workers \ {w} : worker[v].job = i => hand[v].at \notin Staged
  BY <1>2, <1>6, <1>7, <1>9
<1>11. \A v \in {w} : orphan'[worker'[v].job] = "none" => InTime(hand'[v].at, src'[worker'[v].job])
  BY <1>2, <1>8 DEF j
<1>12. {w} \in SUBSET Workers
  OBVIOUS
<1> QED
  BY <1>2, <1>7, <1>10, <1>11, <1>12, KeepsInTime

LEMMA LookExact == ASSUME EInv, PInv', NEW w \in Workers, Look(w) PROVE EInv'
<1> DEFINE j == worker[w].job
           next == Seen(src[j], hand[w].stage)
<1>1. hand' = [hand EXCEPT ![w] = next] /\ UNCHANGED <<worker, orphan, src>>
  BY DEF Look, vars
<1>2. PInv /\ worker[w].at = "handling" /\ j \in Jobs /\ hand \in [Workers -> Handler]
  BY KnownOfWorker DEF EInv, Look, Handling, PInv, PTypeOK
<1>3. src[j].status \in LedgerStatuses
  BY <1>2, KnownOfSource DEF Source
<1>4. InTime(next.at, src[j])
  <2>1. CASE next = Go(FirstStep(src[j]), 0, FALSE) /\ src[j].status \in {"PENDING", "EXTRACTED", "CANONICALIZED", "GOVERNED"}
    <3>1. next.at = FirstStep(src[j])
      BY <2>1 DEF Go
    <3>2. FirstStep(src[j]) \in Staged /\ Begins(FirstStep(src[j]), src[j])
      BY <2>1, FirstSteps
    <3>3. FirstStep(src[j]) = "govern" => ~src[j].asserts
      <4>1. FirstStep(src[j]) = "govern" => src[j].status = "CANONICALIZED"
        BY <3>2 DEF Begins
      <4>2. src[j].status = "CANONICALIZED" => FirstStep(src[j]) = IF src[j].asserts THEN "propose" ELSE "govern"
        BY DEF FirstStep
      <4> QED
        BY <4>1, <4>2
    <3> QED
      BY <3>1, <3>2, <3>3 DEF InTime
  <2>2. CASE next.at \in {"failed", "clear", "unlock", "look"}
    BY <2>2 DEF InTime, Staged, Steps
  <2>3. \/ next.at \in {"failed", "clear", "unlock", "look"}
        \/ next = Go(FirstStep(src[j]), 0, FALSE) /\ Rank(src[j].status) = hand[w].stage + 1
           /\ src[j].status # "NONE" /\ ~(hand[w].stage = 1 /\ src[j].status \in Final)
    BY DEF Seen, Go
  <2>4. hand[w].stage \in 1..4
    BY <1>2, KnownOfWorker DEF HandKnows, Look, Handling
  <2>5. Rank(src[j].status) = hand[w].stage + 1 => src[j].status \notin {"SUCCEEDED", "NEEDS_REVIEW"}
    BY <2>4, Ranks
  <2> QED
    BY <1>3, <2>1, <2>2, <2>3, <2>5 DEF LedgerStatuses
<1>5. hand'[w] = next /\ \A v \in Workers \ {w} : hand'[v] = hand[v]
  BY <1>1, <1>2
<1>6. \A v \in {w} : orphan'[worker'[v].job] = "none" => InTime(hand'[v].at, src'[worker'[v].job])
  BY <1>1, <1>4, <1>5
<1> HIDE DEF next
<1>7. {w} \in SUBSET Workers
  OBVIOUS
<1> QED
  BY <1>1, <1>5, <1>6, <1>7, KeepsInTime

\* A worker that is at no step afterwards has nothing to know.
LEMMA OffSteps ==
  ASSUME EInv, PInv', NEW w \in Workers, UNCHANGED src,
         \A v \in Workers \ {w} : hand'[v] = hand[v] /\ worker'[v] = worker[v],
         \A j \in Jobs : orphan'[j] = "none" => orphan[j] = "none",
         hand'[w].at \notin Staged
  PROVE  EInv'
<1>1. \A v \in {w} : orphan'[worker'[v].job] = "none" => InTime(hand'[v].at, src'[worker'[v].job])
  BY DEF InTime
<1>2. {w} \in SUBSET Workers
  OBVIOUS
<1> QED
  BY <1>1, <1>2, KeepsInTime

LEMMA StepsOff ==
  ASSUME NEW at \in {"out", "lock", "look", "failed", "unlock", "ended"}, NEW stage, NEW ok
  PROVE  Go(at, stage, ok).at \notin Staged
  BY DEF Go, Staged, Steps

LEMMA HandlerExact ==
  ASSUME EInv, PInv', NEW w \in Workers, TakeLock(w) \/ Fail(w) \/ RecordError(w) \/ Unlock(w)
  PROVE  EInv'
<1>1. UNCHANGED <<worker, src, orphan>>
  BY DEF TakeLock, Fail, RecordError, Unlock, vars
<1>2. PICK at \in {"look", "failed", "unlock", "ended"}, stage \in {0, 1}, ok \in {hand[w].ok, FALSE} :
        hand' = [hand EXCEPT ![w] = Go(at, stage, ok)]
  <2>1. CASE TakeLock(w) \/ Fail(w) \/ RecordError(w)
    BY <2>1 DEF TakeLock, Fail, RecordError, Thrown
  <2>2. CASE Unlock(w)
    BY <2>2 DEF Unlock
  <2> QED
    BY <2>1, <2>2
<1> DEFINE h == Go(at, stage, ok)
<1>3. h.at \notin Staged
  BY StepsOff
<1>4. hand' = [hand EXCEPT ![w] = h] /\ hand \in [Workers -> Handler]
  BY <1>2 DEF EInv, PInv, PTypeOK
<1> HIDE DEF h
<1>5. hand'[w] = h /\ \A v \in Workers \ {w} : hand'[v] = hand[v]
  BY <1>4
<1> QED
  BY <1>1, <1>3, <1>5, OffSteps

LEMMA OutOff == Out.at \notin Staged
  BY DEF Out, Staged, Steps

LEMMA QueueExact ==
  ASSUME EInv, PInv', NEW w \in Workers, QueueStep(w) \/ BeginJob(w) \/ Report(w) \/ Die(w)
  PROVE  EInv'
<1>1. PInv /\ hand \in [Workers -> Handler] /\ worker \in [Workers -> Turns]
  BY DEF EInv, PInv, PTypeOK, IInv, TypeOK
<1>2. UNCHANGED src
  BY DEF QueueStep, BeginJob, Report, Die, pvars
<1>3. \A j \in Jobs : orphan'[j] = "none" => orphan[j] = "none"
  <2>1. CASE UNCHANGED orphan
    BY <2>1
  <2>2. CASE Die(w) /\ ~UNCHANGED orphan
    <3>1. /\ worker[w].at = "handling" /\ Outcomes(hand[w].at, src[worker[w].job]) # {}
          /\ orphan' = [orphan EXCEPT ![worker[w].job] = hand[w].at]
      BY <2>2 DEF Die
    <3>2. hand[w].at # "none" /\ worker[w].job \in Jobs
      BY <1>1, <3>1, KnownOfWorker DEF Handler, Steps
    <3>3. orphan \in [Jobs -> Steps \cup {"none", "landed"}]
      BY <1>1 DEF PInv, PTypeOK
    <3> QED
      BY <3>1, <3>2, <3>3
  <2> QED
    BY <2>1, <2>2 DEF QueueStep, BeginJob, Report, pvars
<1>4. \A v \in Workers \ {w} : worker'[v] = worker[v]
  BY <1>1 DEF QueueStep, RetireStranded, TakeOldest, CommitOutcome, BeginJob, CommitClaim,
              Report, ReportOutcome, ReportRefused, Die, Abandon
<1>5. hand'[w].at \notin Staged /\ \A v \in Workers \ {w} : hand'[v] = hand[v]
  <2>1. CASE QueueStep(w)
    <3>1. worker[w].at # "handling" /\ hand' = hand
      BY <2>1 DEF QueueStep, RetireStranded, TakeOldest, CommitOutcome, pvars
    <3>2. hand[w].at = "out"
      BY <1>1, <3>1, KnownOfWorker
    <3> QED
      BY <3>1, <3>2 DEF Staged, Steps
  <2>2. CASE BeginJob(w)
    <3> DEFINE h == IF worker[w].job = None THEN Out ELSE Go("lock", 0, FALSE)
    <3>1. h.at \notin Staged
      BY OutOff, StepsOff
    <3>2. hand' = [hand EXCEPT ![w] = h]
      BY <2>2 DEF BeginJob
    <3> HIDE DEF h
    <3> QED
      BY <1>1, <3>1, <3>2
  <2>3. CASE Report(w) \/ Die(w)
    BY <1>1, <2>3, OutOff DEF Report, Die
  <2> QED
    BY <2>1, <2>2, <2>3
<1> QED
  BY <1>2, <1>3, <1>4, <1>5, OffSteps

LEMMA RecordIntentExact == ASSUME EInv, PInv', NEW j \in Jobs, RecordIntent(j) PROVE EInv'
<1> DEFINE rec == [src[j] EXCEPT !.status = "PENDING"]
<1>1. PInv /\ src[j] \in Source /\ src \in [Jobs -> Source] /\ src[j].status = "NONE"
  BY KnownOfSource DEF RecordIntent, EInv
<1>2. src' = [src EXCEPT ![j] = rec] /\ UNCHANGED <<worker, hand, orphan>>
  BY <1>1 DEF RecordIntent, vars
<1>3. /\ rec.status = "PENDING" /\ rec.run = src[j].run /\ rec.unknowns = src[j].unknowns
      /\ rec.open = src[j].open /\ rec.unresolved = src[j].unresolved
      /\ rec.asserts = src[j].asserts /\ rec.belief = src[j].belief /\ rec.times = src[j].times
  BY <1>1 DEF Source
<1> HIDE DEF rec
<1>4. orphan[j] = "none" => RowExact(src[j])
  BY <1>1, ExactlyKnown
<1>5. orphan[j] = "none" => RowExact(rec)
  BY <1>1, <1>3, <1>4, Ranks DEF RowExact, StagesExact, GovernedMeansCommitted, UnresolvedExact, Final
<1>6. \A i \in Jobs : src'[i] = IF i = j THEN rec ELSE src[i]
  BY <1>1, <1>2
<1>7. ASSUME NEW w \in Workers, worker[w].job = j PROVE hand[w].at \notin Staged
  <2>1. \A at \in Staged : ~Begins(at, src[j]) /\ ~Overtaken(at, src[j])
    BY <1>1 DEF Begins, Overtaken
  <2>2. hand[w].at \in Staged => HandKnows(hand[w], src[j], orphan[j] \in Steps)
    BY <1>1, <1>7, KnownOfWorker DEF Staged, Steps
  <2> QED
    BY <2>1, <2>2 DEF HandKnows
<1>8. \A i \in Jobs : orphan'[i] = "none" /\ src'[i] # src[i] =>
        RowExact(src'[i]) /\ \A v \in Workers : worker[v].job = i => hand[v].at \notin Staged
  BY <1>2, <1>5, <1>6, <1>7
<1>9. {} \in SUBSET Workers
  OBVIOUS
<1> QED
  BY <1>2, <1>8, <1>9, KeepsInTime

LEMMA LandExact == ASSUME EInv, PInv', NEW j \in Jobs, Land(j) PROVE EInv'
<1>1. PInv /\ orphan \in [Jobs -> Steps \cup {"none", "landed"}] /\ src \in [Jobs -> Source]
  BY KnownOfSource DEF EInv, PInv, PTypeOK
<1>2. UNCHANGED <<worker, hand>> /\ orphan' = [orphan EXCEPT ![j] = "landed"]
  BY DEF Land, vars
<1>3. \A i \in Jobs \ {j} : src'[i] = src[i] /\ orphan'[i] = orphan[i]
  BY <1>1, <1>2 DEF Land
<1>4. orphan'[j] # "none"
  BY <1>1, <1>2
<1>5. {} \in SUBSET Workers
  OBVIOUS
<1> QED
  BY <1>2, <1>3, <1>4, <1>5, KeepsInTime

LEMMA OthersExact == ASSUME EInv, PInv', UNCHANGED <<src, hand, orphan, worker>> PROVE EInv'
<1>1. {} \in SUBSET Workers
  OBVIOUS
<1> QED
  BY <1>1, KeepsInTime

LEMMA NextExact == EInv /\ [PNext]_allVars => EInv'
<1> SUFFICES ASSUME EInv, [PNext]_allVars PROVE EInv'
  OBVIOUS
<1>1. PInv'
  BY NextKeeps DEF EInv
<1>2. CASE UNCHANGED allVars
  BY <1>1, <1>2, OthersExact DEF allVars, vars, pvars
<1>3. ASSUME NEW j \in Jobs, RecordIntent(j) PROVE EInv'
  BY <1>1, <1>3, RecordIntentExact
<1>4. ASSUME NEW j \in Jobs, Land(j) PROVE EInv'
  BY <1>1, <1>4, LandExact
<1>5. ASSUME NEW j \in Jobs, RetryDeadLetterJob(j) \/ LeaseExpires(j), UNCHANGED pvars PROVE EInv'
  BY <1>1, <1>5, OthersExact DEF RetryDeadLetterJob, LeaseExpires, pvars
<1>6. ASSUME NEW w \in Workers, NEW j \in Jobs, Dispatch(w, j) PROVE EInv'
  BY <1>1, <1>6, OthersExact DEF Dispatch, EnqueueJob, pvars
<1>7. ASSUME NEW w \in Workers, QueueStep(w) \/ BeginJob(w) \/ Report(w) \/ Die(w) PROVE EInv'
  BY <1>1, <1>7, QueueExact
<1>8. ASSUME NEW w \in Workers, Handle(w) PROVE EInv'
  BY <1>1, <1>8, WorkExact, LookExact, HandlerExact DEF Handle
<1> QED
  BY <1>2, <1>3, <1>4, <1>5, <1>6, <1>7, <1>8 DEF PNext

LEMMA BegunExact == PInit => EInv
<1> SUFFICES ASSUME PInit PROVE EInv
  OBVIOUS
<1>1. PInv
  BY Begun
<1>2. /\ \A j \in Jobs : src[j] = NoSource
      /\ \A w \in Workers : hand[w] = Out
  BY DEF PInit
<1>3. RowExact(NoSource)
  BY NoSourceFits, EffectsAre, Ranks DEF RowExact, StagesExact, GovernedMeansCommitted, UnresolvedExact, Final
<1>4. \A w \in Workers : InTime(hand[w].at, src[worker[w].job])
  BY <1>2, OutOff DEF InTime
<1> QED
  BY <1>1, <1>2, <1>3, <1>4, ExactlyKnown

\* As long as no COMMIT of a source has outlived its process, each of its stages is
\* carried out exactly as often as its status says, it passes the governor only with what
\* it asserts committed, and what it leaves open is counted once: however leases expire,
\* attempts overlap, answers get lost and processes die.
THEOREM ExactWhileInTime == PSpec => []ExactInTime
<1>1. PInit => EInv
  BY BegunExact
<1>2. EInv /\ [PNext]_allVars => EInv'
  BY NextExact
<1>3. EInv => ExactInTime
  BY DEF EInv
<1> QED
  BY <1>1, <1>2, <1>3, PTL DEF PSpec

-----------------------------------------------------------------------------
(* The projections that a source ends in (ProjectionsProofs).              *)

LEMMA Reducers == O!ProjectionAssumption /\ C!ProjectionAssumption /\ S!ProjectionAssumption
<1>1. 1..3 \subseteq Nat \ {0}
  OBVIOUS
<1> QED
  BY <1>1, NoneAssumption
  DEF O!ProjectionAssumption, O!Untouched, O!NoFrame, C!ProjectionAssumption, C!Untouched, C!NoFrame,
      S!ProjectionAssumption, S!Untouched, S!NoFrame

LEMMA AtMostOne ==
  ASSUME NEW T, IsFiniteSet(T), Cardinality(T) <= 1, NEW q \in T, NEW r \in T
  PROVE  q = r
<1> SUFFICES ASSUME q # r PROVE FALSE
  OBVIOUS
<1>1. IsFiniteSet({q}) /\ Cardinality({q}) = 1
  BY FS_Singleton
<1>2. Cardinality({q} \cup {r}) = 2
  BY <1>1, FS_AddElement
<1>3. Cardinality({q} \cup {r}) <= Cardinality(T) /\ Cardinality(T) \in Nat
  BY FS_Subset, FS_CardinalityType
<1> QED
  BY <1>2, <1>3

OneReplay == Cardinality({r \in DOMAIN replay : replay[r] # None}) <= 1

LEMMA OneIsAlone ==
  ASSUME OneReplay
  PROVE  /\ DOMAIN replay = {w1} => O!Alone /\ C!Alone
         /\ DOMAIN replay = {w1, w2} => S!Alone
<1>1. IsFiniteSet({w1, w2})
  <2>1. IsFiniteSet({w1})
    BY FS_Singleton
  <2>2. IsFiniteSet({w1} \cup {w2})
    BY <2>1, FS_AddElement
  <2> QED
    BY <2>2
<1>2. ASSUME DOMAIN replay = {w1, w2},
             NEW q \in {w1, w2}, NEW r \in {w1, w2}, replay[q] # None, replay[r] # None
      PROVE  q = r
  <2> DEFINE T == {x \in DOMAIN replay : replay[x] # None}
  <2>1. IsFiniteSet(T)
    BY <1>1, <1>2, FS_Subset
  <2>2. q \in T /\ r \in T /\ Cardinality(T) <= 1
    BY <1>2 DEF OneReplay
  <2> HIDE DEF T
  <2> QED
    BY <2>1, <2>2, AtMostOne
<1> QED
  BY <1>2 DEF O!Alone, C!Alone, S!Alone, O!Open, C!Open, S!Open

\* One inductive invariant for each reducer and, while no two replays overlapped, that what
\* is rebuilt has no row and will not have one.
ObligationsInv == O!IInv /\ (inTime => O!Alone /\ O!RetiredGone)
CommitmentsInv == C!IInv /\ (inTime => C!Alone /\ C!RetiredGone)
ScheduleInv == S!IInv /\ (inTime => S!Alone /\ S!RetiredGone)
ProjectionInv == Each(ObligationsInv, CommitmentsInv, ScheduleInv)

Timed == inTime' = (inTime /\ OneReplay')

LEMMA ObligationsStep ==
  ASSUME ObligationsInv, O!ProjectionNext, Timed
  PROVE  ObligationsInv'
<1>1. O!IInv' /\ (O!Alone /\ O!RetiredGone => O!RetiredGone')
  BY Reducers, O!Steps DEF ObligationsInv
<1>2. OneReplay' => O!Alone'
  BY <1>1, OneIsAlone, PTL DEF O!IInv
<1> QED
  BY <1>1, <1>2 DEF ObligationsInv, Timed

LEMMA ObligationsStay ==
  ASSUME ObligationsInv, UNCHANGED <<projections, inTime>>
  PROVE  ObligationsInv'
<1>1. UNCHANGED O!vars /\ replay' = replay /\ inTime' = inTime
  BY DEF projections, O!vars
<1>2. O!IInv' /\ (O!RetiredGone => O!RetiredGone')
  BY <1>1, O!Stutters DEF ObligationsInv
<1>3. O!Alone => O!Alone'
  BY <1>1 DEF O!Alone, O!Open
<1> QED
  BY <1>1, <1>2, <1>3 DEF ObligationsInv

LEMMA ObligationsBegin ==
  ASSUME O!ProjectionInit
  PROVE  ObligationsInv
<1>1. O!IInv /\ O!RetiredGone
  BY Reducers, O!Begins
<1>2. O!Alone
  BY DEF O!ProjectionInit, O!Alone, O!Open
<1> QED
  BY <1>1, <1>2 DEF ObligationsInv

LEMMA ObligationsShow ==
  ASSUME ObligationsInv
  PROVE  /\ O!ProjectionTypeOK /\ O!NoWriteLost /\ O!ReplayEqualsApply
         /\ inTime => O!RetiredHaveNoRow
  BY Reducers, O!Shows DEF ObligationsInv

LEMMA CommitmentsStep ==
  ASSUME CommitmentsInv, C!ProjectionNext, Timed
  PROVE  CommitmentsInv'
<1>1. C!IInv' /\ (C!Alone /\ C!RetiredGone => C!RetiredGone')
  BY Reducers, C!Steps DEF CommitmentsInv
<1>2. OneReplay' => C!Alone'
  BY <1>1, OneIsAlone, PTL DEF C!IInv
<1> QED
  BY <1>1, <1>2 DEF CommitmentsInv, Timed

LEMMA CommitmentsStay ==
  ASSUME CommitmentsInv, UNCHANGED <<projections, inTime>>
  PROVE  CommitmentsInv'
<1>1. UNCHANGED C!vars /\ replay' = replay /\ inTime' = inTime
  BY DEF projections, C!vars
<1>2. C!IInv' /\ (C!RetiredGone => C!RetiredGone')
  BY <1>1, C!Stutters DEF CommitmentsInv
<1>3. C!Alone => C!Alone'
  BY <1>1 DEF C!Alone, C!Open
<1> QED
  BY <1>1, <1>2, <1>3 DEF CommitmentsInv

LEMMA CommitmentsBegin ==
  ASSUME C!ProjectionInit
  PROVE  CommitmentsInv
<1>1. C!IInv /\ C!RetiredGone
  BY Reducers, C!Begins
<1>2. C!Alone
  BY DEF C!ProjectionInit, C!Alone, C!Open
<1> QED
  BY <1>1, <1>2 DEF CommitmentsInv

LEMMA CommitmentsShow ==
  ASSUME CommitmentsInv
  PROVE  /\ C!ProjectionTypeOK /\ C!NoWriteLost /\ C!ReplayEqualsApply
         /\ inTime => C!RetiredHaveNoRow
  BY Reducers, C!Shows DEF CommitmentsInv

LEMMA ScheduleStep ==
  ASSUME ScheduleInv, S!ProjectionNext, Timed
  PROVE  ScheduleInv'
<1>1. S!IInv' /\ (S!Alone /\ S!RetiredGone => S!RetiredGone')
  BY Reducers, S!Steps DEF ScheduleInv
<1>2. OneReplay' => S!Alone'
  BY <1>1, OneIsAlone, PTL DEF S!IInv
<1> QED
  BY <1>1, <1>2 DEF ScheduleInv, Timed

LEMMA ScheduleStay ==
  ASSUME ScheduleInv, UNCHANGED <<projections, inTime>>
  PROVE  ScheduleInv'
<1>1. UNCHANGED S!vars /\ replay' = replay /\ inTime' = inTime
  BY DEF projections, S!vars
<1>2. S!IInv' /\ (S!RetiredGone => S!RetiredGone')
  BY <1>1, S!Stutters DEF ScheduleInv
<1>3. S!Alone => S!Alone'
  BY <1>1 DEF S!Alone, S!Open
<1> QED
  BY <1>1, <1>2, <1>3 DEF ScheduleInv

LEMMA ScheduleBegin ==
  ASSUME S!ProjectionInit
  PROVE  ScheduleInv
<1>1. S!IInv /\ S!RetiredGone
  BY Reducers, S!Begins
<1>2. S!Alone
  BY DEF S!ProjectionInit, S!Alone, S!Open
<1> QED
  BY <1>1, <1>2 DEF ScheduleInv

LEMMA ScheduleShow ==
  ASSUME ScheduleInv
  PROVE  /\ S!ProjectionTypeOK /\ S!NoWriteLost /\ S!ReplayEqualsApply
         /\ inTime => S!RetiredHaveNoRow
  BY Reducers, S!Shows DEF ScheduleInv

EvidenceInv ==
  /\ subject \in {"obligations", "commitments", "schedule", "processing"}
  /\ PInv /\ ProjectionInv

LEMMA EvidenceBegins == MCInit => EvidenceInv
<1> SUFFICES ASSUME MCInit PROVE EvidenceInv
  OBVIOUS
<1>1. PInv
  BY Begun DEF MCInit
<1>2. CASE subject = "obligations" /\ O!ProjectionInit
  BY <1>1, <1>2, ObligationsBegin DEF EvidenceInv, ProjectionInv, Each
<1>3. CASE subject = "commitments" /\ C!ProjectionInit
  BY <1>1, <1>3, CommitmentsBegin DEF EvidenceInv, ProjectionInv, Each
<1>4. CASE subject \in {"schedule", "processing"} /\ S!ProjectionInit
  BY <1>1, <1>4, ScheduleBegin DEF EvidenceInv, ProjectionInv, Each
<1> QED
  BY <1>2, <1>3, <1>4 DEF MCInit

LEMMA ProjectionStays == ProjectionInv /\ UNCHANGED <<projections, inTime, subject>> => ProjectionInv'
  BY ObligationsStay, CommitmentsStay, ScheduleStay DEF ProjectionInv, Each

LEMMA EvidenceSteps == EvidenceInv /\ [MCNext]_<<allVars, projections, inTime, subject>> => EvidenceInv'
<1> SUFFICES ASSUME EvidenceInv, [MCNext]_<<allVars, projections, inTime, subject>> PROVE EvidenceInv'
  OBVIOUS
<1>1. PInv /\ ProjectionInv /\ subject \in {"obligations", "commitments", "schedule", "processing"}
  BY DEF EvidenceInv
<1>2. subject' = subject
  BY DEF MCNext
<1>3. ASSUME UNCHANGED allVars PROVE PInv'
  BY <1>1, <1>3, NextKeeps
<1>4. CASE UNCHANGED <<allVars, projections, inTime>>
  <2>1. PInv' /\ ProjectionInv'
    BY <1>1, <1>2, <1>3, <1>4, ProjectionStays
  <2> QED
    BY <1>1, <1>2, <2>1 DEF EvidenceInv
<1>5. CASE PNext /\ UNCHANGED <<projections, inTime>>
  <2>1. PInv'
    BY <1>1, <1>5, NextKeeps
  <2>2. ProjectionInv'
    BY <1>1, <1>2, <1>5, ProjectionStays
  <2> QED
    BY <1>1, <1>2, <2>1, <2>2 DEF EvidenceInv
<1>6. CASE subject = "obligations" /\ O!ProjectionNext /\ Timed /\ UNCHANGED allVars
  <2>1. ObligationsInv'
    BY <1>1, <1>6, ObligationsStep DEF ProjectionInv, Each
  <2> QED
    BY <1>2, <1>3, <1>6, <2>1 DEF EvidenceInv, ProjectionInv, Each
<1>7. CASE subject = "commitments" /\ C!ProjectionNext /\ Timed /\ UNCHANGED allVars
  <2>1. CommitmentsInv'
    BY <1>1, <1>7, CommitmentsStep DEF ProjectionInv, Each
  <2> QED
    BY <1>2, <1>3, <1>7, <2>1 DEF EvidenceInv, ProjectionInv, Each
<1>8. CASE subject = "schedule" /\ S!ProjectionNext /\ Timed /\ UNCHANGED allVars
  <2>1. ScheduleInv'
    BY <1>1, <1>8, ScheduleStep DEF ProjectionInv, Each
  <2> QED
    BY <1>2, <1>3, <1>8, <2>1 DEF EvidenceInv, ProjectionInv, Each
<1> QED
  BY <1>4, <1>5, <1>6, <1>7, <1>8 DEF MCNext, Timed, OneReplay

THEOREM EvidenceInvariant == MCSpec => []EvidenceInv
<1> QED
  BY EvidenceBegins, EvidenceSteps, PTL DEF MCSpec

\* Whatever dies, and whatever replays race, the ledger, the locks and the handlers have
\* their types; a merged frame knows its survivor, a row was made of deltas that are there,
\* and only what was merged or split is ever rebuilt.
THEOREM EvidenceTypes == MCSpec => []TypesOK
<1>1. EvidenceInv => TypesOK
  BY ObligationsShow, CommitmentsShow, ScheduleShow DEF EvidenceInv, PInv, ProjectionInv, TypesOK, Each
<1> QED
  BY <1>1, EvidenceInvariant, PTL

\* However replays, merges, splits and the owner's writes follow one another, a read of a
\* frame's row folds in or reports every write of the owner's about it that is not settled.
THEOREM EveryWriteIsRead == MCSpec => []NoWriteLost
<1>1. EvidenceInv => NoWriteLost
  BY ObligationsShow, CommitmentsShow, ScheduleShow DEF EvidenceInv, ProjectionInv, NoWriteLost, Each
<1> QED
  BY <1>1, EvidenceInvariant, PTL

\* A replay that nobody disturbed leaves what the reducer says of memory then, exactly what
\* the incremental step before it had written; and as long as no two replays overlap, a
\* frame whose rebuild has its receipts has no row.
THEOREM ReplaysAgree == MCSpec => []RowsAgreeWithMemory
<1>1. EvidenceInv => RowsAgreeWithMemory
  BY ObligationsShow, CommitmentsShow, ScheduleShow DEF EvidenceInv, ProjectionInv, RowsAgreeWithMemory, Each
<1> QED
  BY <1>1, EvidenceInvariant, PTL
=============================================================================
