---------------------------- MODULE BackgroundProofs ----------------------------
(***************************************************************************)
(* Proofs about ConnectorSync, for every mailbox, page limit and set of    *)
(* sessions, and about Initiative, for every set of workers, watches and   *)
(* states and every deadline, budget and bound.  Of the connector: what    *)
(* overlapping syncs, consents and disconnects keep.  Of the initiative:   *)
(* what the advisory lock, and the receipts that are read under it, keep   *)
(* from being asked twice or too often.                                    *)
(***************************************************************************)
EXTENDS MCBackground, FiniteSetTheorems, WellFoundedInduction, TLAPS

-----------------------------------------------------------------------------
(* The connector.                                                          *)

ConnRows == [status : Statuses, cursor : 0..Pages, secret : BOOLEAN, error : Errors]

-----------------------------------------------------------------------------
(* Sessions.                                                               *)

\* A session with nothing to do, or about to record a failure, has its type and
\* holds nothing.
LEMMA IdleSession ==
  /\ Idle \in Session /\ [Idle EXCEPT !.at = "failed"] \in Session
  /\ \A t \in {Idle, [Idle EXCEPT !.at = "failed"]} :
       t.at \in {"idle", "failed"} /\ t.row = FALSE /\ t.wrote = {}
<1>1. 0 \in 0..Pages /\ 0 \in 0..MaxPages
  BY PagesAssumption
<1>2. Idle \in Session
  BY <1>1 DEF Idle, Session, Places
<1>3. [Idle EXCEPT !.at = "failed"] \in Session
  BY <1>1 DEF Idle, Session, Places
<1> QED
  BY <1>2, <1>3 DEF Idle

\* Replacing one session's record leaves the others alone.
LEMMA SessionMoves ==
  ASSUME NEW s \in Sessions, NEW t \in Session, session \in [Sessions -> Session],
         session' = [session EXCEPT ![s] = t]
  PROVE  /\ session' \in [Sessions -> Session]
         /\ session'[s] = t
         /\ \A r \in Sessions \ {s} : session'[r] = session[r]
  OBVIOUS

\* A step that moves one session and no row keeps the invariant, if the session goes
\* where it knows what it has to know, and keeps apart from the others.
LEMMA QuietStep ==
  ASSUME IInv, NEW s \in Sessions, NEW t \in Session,
         session' = [session EXCEPT ![s] = t],
         UNCHANGED <<conn, grants, store, passed, token>>,
         SessionKnows(t),
         \A r \in Sessions \ {s} : Apart(t, session[r])
  PROVE  IInv'
<1>1. /\ session' \in [Sessions -> Session]
      /\ session'[s] = t
      /\ \A r \in Sessions \ {s} : session'[r] = session[r]
  BY SessionMoves DEF IInv, TypeOK
<1>2. TypeOK'
  BY <1>1 DEF IInv, TypeOK
<1>3. MailboxCovered'
  BY DEF IInv, MailboxCovered, StoredOnce, CursorCovers, Covered
<1>4. SecretKept'
  BY DEF IInv, SecretKept
<1>5. \A u : SessionKnows(u) => SessionKnows(u)'
  BY DEF SessionKnows, Accounted, Covered
<1>6. SessionsKnow'
  BY <1>1, <1>5 DEF IInv, SessionsKnow, SessionKnows, Accounted, Covered
<1>7. SessionsApart'
  BY <1>1 DEF IInv, SessionsApart, Apart
<1> QED
  BY <1>2, <1>3, <1>4, <1>6, <1>7 DEF IInv

\* So does one after which the session holds nothing and is nowhere in particular.
LEMMA RestsStep ==
  ASSUME IInv, NEW s \in Sessions, NEW t \in Session,
         session' = [session EXCEPT ![s] = t],
         UNCHANGED <<conn, grants, store, passed, token>>,
         t.at \in {"idle", "failed", "asked", "leaving"}, ~t.row, t.wrote = {}
  PROVE  IInv'
<1>1. SessionKnows(t)
  BY DEF SessionKnows
<1>2. \A r \in Sessions \ {s} : Apart(t, session[r])
  BY DEF Apart
<1> QED
  BY <1>1, <1>2, QuietStep

-----------------------------------------------------------------------------
(* The operations, one by one.                                             *)

\* A new connector has been read by nobody.
LEMMA InvInit == Init => IInv
<1> SUFFICES ASSUME Init PROVE IInv
  OBVIOUS
<1>1. 0 \in 0..Pages /\ 1..0 = {}
  BY PagesAssumption
<1>2. conn \in ConnRows
  BY <1>1 DEF Init, ConnRows, Statuses, Errors
<1>3. TypeOK
  <2>1. store \in [Evidence -> Nat] /\ passed \in SUBSET (1..Pages)
    BY DEF Init
  <2>2. session \in [Sessions -> Session]
    BY IdleSession DEF Init
  <2>3. grants \in SUBSET Capabilities /\ token \in BOOLEAN
    BY DEF Init
  <2> QED
    BY <1>2, <2>1, <2>2, <2>3 DEF TypeOK, ConnRows
<1>4. MailboxCovered
  BY <1>1 DEF Init, MailboxCovered, StoredOnce, CursorCovers
<1>5. SecretKept
  BY DEF Init, SecretKept
<1>6. SessionsKnow /\ SessionsApart
  BY DEF Init, Idle, SessionsKnow, SessionKnows, SessionsApart, Apart
<1> QED
  BY <1>3, <1>4, <1>5, <1>6 DEF IInv

\* A sync begins behind a cursor up to which every message is accounted for, or at
\* the start of the mailbox.
LEMMA InvLoadSync == ASSUME IInv, NEW s \in Sessions, LoadSync(s) PROVE IInv'
<1>1. PICK backfill \in BOOLEAN : session' = [session EXCEPT ![s] =
         IF conn.status \in {"ACTIVE", "SYNC_FAILED"} /\ conn.secret
         THEN [Idle EXCEPT !.at = "loaded", !.status = conn.status, !.cursor = IF backfill THEN 0 ELSE conn.cursor]
         ELSE [Idle EXCEPT !.at = "failed"]]
  BY DEF LoadSync
<1>2. UNCHANGED <<conn, grants, store, passed, token>>
  BY DEF LoadSync
<1>3. CASE conn.status \in {"ACTIVE", "SYNC_FAILED"} /\ conn.secret
  <2> DEFINE from == IF backfill THEN 0 ELSE conn.cursor
             t == [Idle EXCEPT !.at = "loaded", !.status = conn.status, !.cursor = from]
  <2>1. from \in 0..Pages
    BY PagesAssumption DEF IInv, TypeOK
  <2>2. t \in Session
    BY <2>1, IdleSession, <1>3 DEF Idle, Session, Places, Statuses
  <2>3. Accounted(t, from)
    <3>1. CASE backfill
      BY <3>1 DEF Accounted
    <3>2. CASE ~backfill
      BY <3>2 DEF Accounted, IInv, MailboxCovered, CursorCovers
    <3> QED
      BY <3>1, <3>2
  <2>4. t.at = "loaded" /\ t.cursor = from /\ t.row = FALSE /\ t.wrote = {}
    BY DEF Idle
  <2>5. SessionKnows(t) /\ \A r \in Sessions \ {s} : Apart(t, session[r])
    BY <2>3, <2>4 DEF SessionKnows, Apart
  <2>6. session' = [session EXCEPT ![s] = t]
    BY <1>1, <1>3
  <2> QED
    BY <1>2, <2>2, <2>5, <2>6, QuietStep
<1>4. CASE ~(conn.status \in {"ACTIVE", "SYNC_FAILED"} /\ conn.secret)
  <2>1. session' = [session EXCEPT ![s] = [Idle EXCEPT !.at = "failed"]]
    BY <1>1, <1>4
  <2> QED
    BY <1>2, <2>1, IdleSession, RestsStep
<1> QED
  BY <1>3, <1>4

\* The grants are read, and a failed connector is healed by at most one session.
LEMMA InvReadGrants == ASSUME IInv, NEW s \in Sessions, ReadGrants(s) PROVE IInv'
<1> DEFINE old == session[s]
           heals == old.status = "SYNC_FAILED" /\ conn.status = "SYNC_FAILED"
           t == [old EXCEPT !.at = "page", !.status = None, !.granted = grants, !.row = heals]
<1>1. /\ old.at = "loaded"
      /\ old.status = "SYNC_FAILED" => RowFree(s)
      /\ UNCHANGED <<conn, grants, store, passed, token>>
  BY DEF ReadGrants
<1>2. old \in Session /\ grants \in SUBSET Capabilities /\ SessionKnows(old)
  BY DEF IInv, TypeOK, SessionsKnow
<1>3. CASE grants = {}
  <2>1. session' = [session EXCEPT ![s] = [Idle EXCEPT !.at = "failed"]]
    BY <1>3 DEF ReadGrants
  <2> QED
    BY <1>1, <2>1, IdleSession, RestsStep
<1>4. CASE grants # {}
  <2>1. session' = [session EXCEPT ![s] = t]
    BY <1>4 DEF ReadGrants
  <2>2. t \in Session
    BY <1>2 DEF Session, Places
  <2>3. /\ t.at = "page" /\ t.cursor = old.cursor /\ t.missed = old.missed /\ t.wrote = old.wrote
        /\ t.row = heals
    BY <1>2 DEF Session
  <2>4. SessionKnows(t)
    BY <1>1, <1>2, <2>3 DEF SessionKnows, Accounted
  <2>5. \A r \in Sessions \ {s} : Apart(t, session[r])
    BY <1>1, <2>3 DEF Apart, RowFree, IInv, SessionsApart
  <2> QED
    BY <1>1, <2>1, <2>2, <2>4, <2>5, QuietStep
<1> QED
  BY <1>3, <1>4

\* One page further, everything before it is accounted for; the first page follows the last.
LEMMA InvFetch == ASSUME IInv, NEW s \in Sessions, Fetch(s) PROVE IInv'
<1> DEFINE old == session[s]
           t == [old EXCEPT !.at = "holding", !.cursor = NextPage(old.cursor), !.pages = old.pages + 1]
<1>1. old.at = "page" /\ old.pages < MaxPages /\ UNCHANGED <<conn, grants, store, passed, token>>
  BY DEF Fetch
<1>2. old \in Session /\ SessionKnows(old)
  BY DEF IInv, TypeOK, SessionsKnow
<1>3. session' = [session EXCEPT ![s] = t]
  BY DEF Fetch
<1>4. NextPage(old.cursor) \in 1..Pages /\ (NextPage(old.cursor) - 1 \in {0, old.cursor})
  BY <1>2, PagesAssumption DEF NextPage, Session
<1>5. old.pages + 1 \in 0..MaxPages /\ NextPage(old.cursor) \in 0..Pages
  BY <1>1, <1>2, <1>4, PagesAssumption DEF Session
<1>6. t \in Session
  BY <1>2, <1>5 DEF Session, Places
<1>7. /\ t.at = "holding" /\ t.cursor = NextPage(old.cursor) /\ t.missed = old.missed
      /\ t.wrote = old.wrote /\ t.row = old.row
  BY <1>2 DEF Session
<1>8. Accounted(t, t.cursor - 1)
  BY <1>1, <1>2, <1>4, <1>7 DEF SessionKnows, Accounted
<1>9. SessionKnows(t)
  BY <1>2, <1>4, <1>7, <1>8, PagesAssumption DEF SessionKnows
<1>10. \A r \in Sessions \ {s} : Apart(t, session[r])
  BY <1>7 DEF Apart, IInv, SessionsApart
<1> QED
  BY <1>1, <1>3, <1>6, <1>9, <1>10, QuietStep

\* The message of the page becomes evidence that nobody else is inserting, or is
\* found, or passed over.
LEMMA InvIngest == ASSUME IInv, NEW s \in Sessions, Ingest(s) PROVE IInv'
<1> DEFINE old == session[s]
           Passing == [old EXCEPT !.at = "page", !.missed = old.missed \cup {old.cursor}]
           wrote == IF store[Prepared(s)] > 0 THEN old.wrote ELSE old.wrote \cup {Prepared(s)}
           Storing == [old EXCEPT !.at = "page", !.wrote = wrote]
<1>1. old.at = "holding" /\ UNCHANGED <<conn, grants, store, passed, token>>
  BY DEF Ingest
<1>2. old \in Session /\ SessionKnows(old) /\ store \in [Evidence -> Nat]
  BY DEF IInv, TypeOK, SessionsKnow
<1>3. old.cursor \in 1..Pages /\ Accounted(old, old.cursor - 1)
  BY <1>1, <1>2, PagesAssumption DEF SessionKnows, Session
<1>4. CASE session' = [session EXCEPT ![s].at = "page", ![s].missed = @ \cup {session[s].cursor}]
  <2>1. session' = [session EXCEPT ![s] = Passing]
    BY <1>4
  <2>2. Passing \in Session
    BY <1>2, <1>3 DEF Session, Places
  <2>3. /\ Passing.at = "page" /\ Passing.cursor = old.cursor /\ Passing.wrote = old.wrote
        /\ Passing.row = old.row /\ Passing.missed = old.missed \cup {old.cursor}
    BY <1>2 DEF Session
  <2>4. Accounted(Passing, old.cursor)
    <3>1. \A item \in 1..old.cursor : item = old.cursor \/ item \in 1..(old.cursor - 1)
      BY <1>3, PagesAssumption
    <3> QED
      BY <1>3, <2>3, <3>1 DEF Accounted
  <2>5. SessionKnows(Passing) /\ \A r \in Sessions \ {s} : Apart(Passing, session[r])
    BY <1>2, <2>3, <2>4 DEF SessionKnows, Apart, IInv, SessionsApart
  <2> QED
    BY <1>1, <2>1, <2>2, <2>5, QuietStep
<1>5. CASE /\ KeyFree(s)
           /\ session' = [session EXCEPT ![s].at = "page",
                ![s].wrote = IF store[Prepared(s)] > 0 THEN @ ELSE @ \cup {Prepared(s)}]
  <2>1. session' = [session EXCEPT ![s] = Storing]
    BY <1>5
  <2>2. PICK content \in Contents : Prepared(s) = <<old.cursor, content>>
    BY DEF Prepared, Contents
  <2>3. Prepared(s) \in Evidence
    BY <1>3, <2>2 DEF Evidence
  <2>4. wrote \in SUBSET Evidence
    BY <1>2, <2>3 DEF Session
  <2>5. Storing \in Session
    BY <1>2, <2>4 DEF Session, Places
  <2>6. /\ Storing.at = "page" /\ Storing.cursor = old.cursor /\ Storing.wrote = wrote
        /\ Storing.row = old.row /\ Storing.missed = old.missed
    BY <1>2 DEF Session
  <2>7. Covered(old.cursor) \/ <<old.cursor, content>> \in wrote
    BY <2>2 DEF Covered
  <2>8. Accounted(Storing, old.cursor)
    <3>1. \A item \in 1..old.cursor : item = old.cursor \/ item \in 1..(old.cursor - 1)
      BY <1>3, PagesAssumption
    <3> QED
      BY <1>3, <2>6, <2>7, <3>1 DEF Accounted
  <2>9. \A e \in wrote : store[e] = 0
    BY <1>2, <2>3 DEF SessionKnows
  <2>10. SessionKnows(Storing)
    BY <1>2, <2>6, <2>8, <2>9 DEF SessionKnows
  <2>11. \A r \in Sessions \ {s} : Apart(Storing, session[r])
    BY <1>5, <2>6 DEF Apart, KeyFree, IInv, SessionsApart
  <2> QED
    BY <1>1, <2>1, <2>5, <2>10, <2>11, QuietStep
<1> QED
  BY <1>4, <1>5 DEF Ingest

\* The provider fails: what was inserted is rolled back.
LEMMA InvFailSync == ASSUME IInv, NEW s \in Sessions, FailSync(s) PROVE IInv'
  BY IdleSession, RestsStep DEF FailSync

\* A transaction ends without effect.
LEMMA InvRollback == ASSUME IInv, NEW s \in Sessions, Rollback(s) PROVE IInv'
  BY IdleSession, RestsStep DEF Rollback

\* Consent begins from a status that may be stale when it is written.
LEMMA InvLoadGrants == ASSUME IInv, NEW s \in Sessions, LoadGrants(s) PROVE IInv'
<1> DEFINE t == [Idle EXCEPT !.at = "asked", !.status = conn.status]
<1>1. t \in Session
  BY IdleSession DEF IInv, TypeOK, Session, Idle, Places
<1>2. t.at = "asked" /\ t.row = FALSE /\ t.wrote = {}
  BY DEF Idle
<1> QED
  BY <1>1, <1>2, RestsStep DEF LoadGrants

\* A grant row is locked; the connector row is not yet.
LEMMA InvToggle ==
  ASSUME IInv, NEW s \in Sessions, NEW cap \in Capabilities, NEW give \in BOOLEAN, Toggle(s, cap, give)
  PROVE  IInv'
<1> DEFINE old == session[s]
           status == Consent(old.status, Granted({cap}, give))
           t == [old EXCEPT !.at = "toggled", !.caps = {cap}, !.give = give, !.status = status]
<1>1. old.at = "asked" /\ UNCHANGED <<conn, grants, store, passed, token>>
  BY DEF Toggle
<1>2. old \in Session
  BY DEF IInv, TypeOK
<1>3. status \in {None, "ACTIVE", "PENDING_AUTHORIZATION"}
  BY DEF Consent
<1>4. t \in Session
  BY <1>2, <1>3 DEF Session, Places, Statuses
<1>5. session' = [session EXCEPT ![s] = t]
  BY DEF Toggle
<1>6. t.at = "toggled" /\ t.row = old.row /\ t.wrote = old.wrote /\ t.status = status
  BY <1>2 DEF Session
<1>7. SessionKnows(t) /\ \A r \in Sessions \ {s} : Apart(t, session[r])
  BY <1>3, <1>6 DEF SessionKnows, Apart, IInv, SessionsKnow, SessionsApart
<1> QED
  BY <1>1, <1>4, <1>5, <1>7, QuietStep

\* A connector without a credential has nothing to revoke.
LEMMA InvLoadDisconnect == ASSUME IInv, NEW s \in Sessions, LoadDisconnect(s) PROVE IInv'
<1> DEFINE t == [Idle EXCEPT !.at = IF conn.secret THEN "leaving" ELSE "revoked"]
<1>1. session' = [session EXCEPT ![s] = t] /\ UNCHANGED <<conn, grants, store, passed, token>>
  BY DEF LoadDisconnect
<1>2. t \in Session
  BY IdleSession DEF Session, Idle, Places
<1>3. t.at = (IF conn.secret THEN "leaving" ELSE "revoked") /\ t.row = FALSE /\ t.wrote = {}
  BY DEF Idle
<1>4. SessionKnows(t) /\ \A r \in Sessions \ {s} : Apart(t, session[r])
  BY <1>3 DEF SessionKnows, Apart, IInv, SecretKept
<1> QED
  BY <1>1, <1>2, <1>4, QuietStep

\* The grant rows are locked, those granted as the statement starts.
LEMMA InvClearGrants == ASSUME IInv, NEW s \in Sessions, ClearGrants(s) PROVE IInv'
<1> DEFINE old == session[s]
           t == [old EXCEPT !.at = "cleared", !.caps = Leaving, !.give = FALSE]
<1>1. old.at = "revoked" /\ UNCHANGED <<conn, grants, store, passed, token>>
  BY DEF ClearGrants
<1>2. old \in Session /\ SessionKnows(old) /\ grants \in SUBSET Capabilities
  BY DEF IInv, TypeOK, SessionsKnow
<1>3. session' = [session EXCEPT ![s] = t]
  BY DEF ClearGrants
<1>4. t \in Session
  BY <1>2 DEF Session, Places, Leaving
<1>5. t.at = "cleared" /\ t.row = old.row /\ t.wrote = old.wrote
  BY <1>2 DEF Session
<1>6. SessionKnows(t) /\ \A r \in Sessions \ {s} : Apart(t, session[r])
  BY <1>1, <1>2, <1>5 DEF SessionKnows, Apart, IInv, SessionsApart
<1> QED
  BY <1>1, <1>3, <1>4, <1>6, QuietStep

\* A step that moves rows and ends its session's transaction keeps the
\* invariant, if what the other sessions rely on survives the rows.
LEMMA RowStep ==
  ASSUME IInv, NEW s \in Sessions, session' = [session EXCEPT ![s] = Idle],
         conn' \in ConnRows, grants' \in SUBSET Capabilities, store' \in [Evidence -> Nat],
         passed' \in SUBSET (1..Pages), token' \in BOOLEAN,
         MailboxCovered', SecretKept',
         \A r \in Sessions \ {s}, u \in Session : u = session[r] => SessionKnows(u)'
  PROVE  IInv'
<1>1. /\ session' \in [Sessions -> Session]
      /\ session'[s] = Idle
      /\ \A r \in Sessions \ {s} : session'[r] = session[r]
  BY IdleSession, SessionMoves DEF IInv, TypeOK
<1>2. TypeOK'
  BY <1>1 DEF TypeOK, ConnRows
<1>3. SessionsKnow'
  <2> SUFFICES ASSUME NEW r \in Sessions PROVE SessionKnows(session[r])'
    BY DEF SessionsKnow
  <2>1. CASE r = s
    BY <1>1, <2>1, IdleSession DEF SessionKnows
  <2>2. CASE r # s
    <3>1. session[r] \in Session /\ session'[r] = session[r]
      BY <1>1, <2>2 DEF IInv, TypeOK
    <3>2. \A u \in Session : u = session[r] => SessionKnows(u)'
      BY <2>2
    <3> QED
      BY <3>1, <3>2 DEF SessionKnows, Accounted, Covered
  <2> QED
    BY <2>1, <2>2
<1>4. SessionsApart'
  BY <1>1, IdleSession DEF IInv, SessionsApart, Apart
<1> QED
  BY <1>2, <1>3, <1>4 DEF IInv

\* What a session relies on, when nothing but the connector row moves.
LEMMA KnowsBeside ==
  ASSUME IInv, NEW r \in Sessions, NEW u \in Session, u = session[r],
         UNCHANGED <<store, passed>>, token' => token, ~u.row \/ conn'.status = "SYNC_FAILED"
  PROVE  SessionKnows(u)'
<1>1. SessionKnows(u) /\ token \in BOOLEAN
  BY DEF IInv, SessionsKnow, TypeOK
<1> QED
  BY <1>1 DEF SessionKnows, Accounted, Covered

\* A sync commits: its cursor is behind nothing that is not in evidence.
LEMMA InvFinishSync == ASSUME IInv, NEW s \in Sessions, FinishSync(s) PROVE IInv'
<1> DEFINE old == session[s]
<1>1. /\ old.at = "page" /\ RowFree(s)
      /\ conn' = Resumed(s) /\ store' = Kept(s) /\ passed' = passed \cup old.missed
      /\ session' = [session EXCEPT ![s] = Idle] /\ UNCHANGED <<grants, token>>
  BY DEF FinishSync
<1>2. /\ old \in Session /\ SessionKnows(old) /\ store \in [Evidence -> Nat]
      /\ conn \in ConnRows /\ passed \in SUBSET (1..Pages)
  BY DEF IInv, TypeOK, SessionsKnow, ConnRows
<1>3. /\ conn' \in ConnRows /\ conn'.cursor = old.cursor /\ conn'.secret = conn.secret
      /\ conn'.status = IF old.row THEN "ACTIVE" ELSE conn.status
  BY <1>1, <1>2 DEF Resumed, ConnRows, Statuses, Errors, Session
<1>4. /\ store' \in [Evidence -> Nat] /\ passed' \in SUBSET (1..Pages)
      /\ \A e \in Evidence : store'[e] = IF e \in old.wrote THEN 1 ELSE store[e]
  <2>1. \A e \in old.wrote : store[e] = 0
    BY <1>2 DEF SessionKnows
  <2>2. store' = [e \in Evidence |-> IF e \in old.wrote THEN store[e] + 1 ELSE store[e]]
    BY <1>1 DEF Kept
  <2>3. store' \in [Evidence -> Nat]
    BY <1>2, <2>2
  <2>4. \A e \in Evidence : store'[e] = IF e \in old.wrote THEN 1 ELSE store[e]
    BY <1>2, <2>1, <2>2
  <2>5. passed' \in SUBSET (1..Pages)
    BY <1>1, <1>2 DEF Session
  <2> QED
    BY <2>3, <2>4, <2>5
<1>5. \A item \in 1..Pages : Covered(item) => Covered(item)'
  BY <1>1, <1>2, <1>4 DEF Covered, Evidence
<1>6. \A item \in 1..Pages :
         item \in old.missed \/ (\E content \in Contents : <<item, content>> \in old.wrote) => Covered(item)'
  BY <1>1, <1>2, <1>4 DEF Covered, Evidence
<1>7. MailboxCovered'
  <2>1. StoredOnce'
    BY <1>4 DEF IInv, MailboxCovered, StoredOnce
  <2>2. Accounted(old, old.cursor) /\ 1..old.cursor \subseteq 1..Pages
    BY <1>1, <1>2, PagesAssumption DEF SessionKnows, Session
  <2>3. \A item \in 1..old.cursor : Covered(item)'
    BY <1>5, <1>6, <2>2 DEF Accounted
  <2>4. CursorCovers'
    BY <1>3, <2>3 DEF CursorCovers, Covered
  <2> QED
    BY <2>1, <2>4 DEF MailboxCovered
<1>8. SecretKept'
  <2>1. old.row => conn.status = "SYNC_FAILED"
    BY <1>2 DEF SessionKnows
  <2> QED
    BY <1>1, <1>3, <2>1 DEF IInv, SecretKept
<1>9. ASSUME NEW r \in Sessions \ {s}, NEW u \in Session, u = session[r] PROVE SessionKnows(u)'
  <2>1. SessionKnows(u) /\ Apart(u, old) /\ ~u.row
    BY <1>1, <1>9 DEF IInv, SessionsKnow, SessionsApart, RowFree
  <2>2. \A e \in u.wrote : store'[e] = 0
    BY <1>4, <2>1 DEF SessionKnows, Apart, Session
  <2>3. ASSUME NEW n \in Int, n <= Pages, Accounted(u, n) PROVE Accounted(u, n)'
    <3>1. \A item \in 1..n : item \in 1..Pages
      BY <2>3, PagesAssumption
    <3>2. \A item \in 1..n : Covered(item) => Covered(item)'
      BY <1>5, <3>1
    <3> HIDE DEF Covered
    <3> QED
      BY <2>3, <3>2 DEF Accounted
  <2>4. u.cursor \in Int /\ u.cursor <= Pages /\ u.cursor - 1 \in Int /\ u.cursor - 1 <= Pages
    BY PagesAssumption DEF Session
  <2> QED
    BY <1>1, <2>1, <2>2, <2>3, <2>4 DEF SessionKnows
<1>10. grants' \in SUBSET Capabilities /\ token' \in BOOLEAN
  BY <1>1 DEF IInv, TypeOK
<1> QED
  BY <1>1, <1>3, <1>4, <1>7, <1>8, <1>9, <1>10, RowStep

\* The reason of a failed sync is recorded; who was disconnected stays so.
LEMMA InvRecordSyncFailure == ASSUME IInv, NEW s \in Sessions, RecordSyncFailure(s) PROVE IInv'
<1>1. /\ RowFree(s) /\ conn' = Failed
      /\ session' = [session EXCEPT ![s] = Idle] /\ UNCHANGED <<grants, store, passed, token>>
  BY DEF RecordSyncFailure
<1>2. conn \in ConnRows
  BY DEF IInv, TypeOK, ConnRows
<1>3. /\ conn' \in ConnRows /\ conn'.cursor = conn.cursor /\ conn'.secret = conn.secret
      /\ conn'.status = "DISCONNECTED" <=> conn.status = "DISCONNECTED"
  BY <1>1, <1>2 DEF Failed, ConnRows, Statuses, Errors
<1>4. MailboxCovered' /\ SecretKept'
  BY <1>1, <1>3 DEF IInv, MailboxCovered, StoredOnce, CursorCovers, Covered, SecretKept
<1>5. \A r \in Sessions \ {s}, u \in Session : u = session[r] => SessionKnows(u)'
  BY <1>1, KnowsBeside DEF RowFree
<1>6. /\ grants' \in SUBSET Capabilities /\ store' \in [Evidence -> Nat]
      /\ passed' \in SUBSET (1..Pages) /\ token' \in BOOLEAN
  BY <1>1 DEF IInv, TypeOK
<1> QED
  BY <1>1, <1>3, <1>4, <1>5, <1>6, RowStep

\* A consent commits, judged by the status it loaded; the CHECK of the table keeps it
\* from reviving what was disconnected meanwhile.
LEMMA InvSetGrants == ASSUME IInv, NEW s \in Sessions, SetGrants(s) PROVE IInv'
<1> DEFINE old == session[s]
<1>1. /\ session' = [session EXCEPT ![s] = Idle] /\ UNCHANGED <<store, passed, token>>
      /\ grants' = Granted(old.caps, old.give)
  BY DEF SetGrants
<1>2. conn \in ConnRows /\ old \in Session
  BY DEF IInv, TypeOK, ConnRows
<1>3. grants' \in SUBSET Capabilities
  BY <1>1, <1>2 DEF Granted, Session, IInv, TypeOK
<1>4. \/ UNCHANGED conn
      \/ /\ RowFree(s) /\ conn.status # "DISCONNECTED"
         /\ old.status # None /\ conn' = [conn EXCEPT !.status = old.status]
  BY DEF SetGrants, Check
<1>5. conn' \in ConnRows /\ conn'.cursor = conn.cursor /\ conn'.secret = conn.secret
  BY <1>2, <1>4 DEF ConnRows, Session
<1>6. store' \in [Evidence -> Nat] /\ passed' \in SUBSET (1..Pages) /\ token' \in BOOLEAN
  BY <1>1 DEF IInv, TypeOK
<1>7. MailboxCovered' /\ SecretKept'
  <2>1. old.at = "toggled" /\ SessionKnows(old)
    BY DEF SetGrants, IInv, SessionsKnow
  <2>2. conn'.status = "DISCONNECTED" => conn.status = "DISCONNECTED"
    BY <1>2, <1>4, <2>1 DEF SessionKnows, ConnRows
  <2> QED
    BY <1>1, <1>5, <2>2 DEF IInv, MailboxCovered, StoredOnce, CursorCovers, Covered, SecretKept
<1>8. ASSUME NEW r \in Sessions \ {s}, NEW u \in Session, u = session[r] PROVE SessionKnows(u)'
  <2>1. ~u.row \/ conn'.status = "SYNC_FAILED"
    BY <1>4, <1>8 DEF RowFree, IInv, SessionsKnow, SessionKnows
  <2> QED
    BY <1>1, <1>8, <2>1, KnowsBeside
<1> QED
  BY <1>1, <1>3, <1>5, <1>6, <1>7, <1>8, RowStep

\* The provider revokes the token, and keeps the credential.
LEMMA InvRevokeAtProvider == ASSUME IInv, NEW s \in Sessions, RevokeAtProvider(s) PROVE IInv'
<1> DEFINE old == session[s]
           t == [old EXCEPT !.at = "revoked"]
<1>1. /\ old.at = "leaving" /\ session' = [session EXCEPT ![s] = t]
      /\ token' = FALSE /\ UNCHANGED <<conn, grants, store, passed>>
  BY DEF RevokeAtProvider
<1>2. /\ session' \in [Sessions -> Session] /\ session'[s] = t
      /\ \A r \in Sessions \ {s} : session'[r] = session[r]
  <2>1. session \in [Sessions -> Session] /\ t \in Session
    BY DEF IInv, TypeOK, Session, Places
  <2> QED
    BY <1>1, <2>1, SessionMoves
<1>3. t.at = "revoked" /\ t.row = old.row /\ t.wrote = old.wrote /\ SessionKnows(old)
  BY DEF IInv, TypeOK, Session, SessionsKnow
<1>4. TypeOK' /\ MailboxCovered' /\ SecretKept'
  BY <1>1, <1>2 DEF IInv, TypeOK, MailboxCovered, StoredOnce, CursorCovers, Covered, SecretKept
<1>5. SessionsKnow'
  <2>1. SessionKnows(session[s])'
    <3>1. session'[s].at = "revoked" /\ session'[s].row = old.row /\ session'[s].wrote = old.wrote
      BY <1>2, <1>3
    <3> HIDE DEF t
    <3> QED
      BY <1>1, <1>3, <3>1 DEF SessionKnows
  <2>2. ASSUME NEW r \in Sessions \ {s} PROVE SessionKnows(session[r])'
    <3>1. session[r] \in Session /\ session'[r] = session[r] /\ SessionKnows(session[r])
      BY <1>2 DEF IInv, TypeOK, SessionsKnow
    <3> QED
      BY <1>1, <3>1 DEF SessionKnows, Accounted, Covered
  <2> HIDE DEF t, old
  <2> QED
    BY <2>1, <2>2, Zenon DEF SessionsKnow
<1>6. SessionsApart'
  <2>1. \A r, q \in Sessions : r # q => Apart(session[r], session[q])
    BY DEF IInv, SessionsApart
  <2>2. \A r \in Sessions : session'[r].row = session[r].row /\ session'[r].wrote = session[r].wrote
    BY <1>2, <1>3
  <2> HIDE DEF t, old
  <2> QED
    BY <2>1, <2>2 DEF SessionsApart, Apart
<1> QED
  BY <1>4, <1>5, <1>6 DEF IInv

\* A disconnect commits, under the lock of the connector row, with its token revoked.
LEMMA InvDisconnect == ASSUME IInv, NEW s \in Sessions, Disconnect(s) PROVE IInv'
<1>1. /\ session[s].at = "cleared" /\ RowFree(s) /\ conn' = Disconnected
      /\ grants' = Granted(session[s].caps, FALSE)
      /\ session' = [session EXCEPT ![s] = Idle] /\ UNCHANGED <<store, passed, token>>
  BY DEF Disconnect
<1>2. conn' \in ConnRows /\ conn'.cursor = 0 /\ conn'.secret = FALSE
  BY <1>1, PagesAssumption DEF Disconnected, ConnRows, Statuses, Errors
<1>3. /\ grants' \in SUBSET Capabilities /\ store' \in [Evidence -> Nat]
      /\ passed' \in SUBSET (1..Pages) /\ token' \in BOOLEAN
  BY <1>1 DEF IInv, TypeOK, Granted
<1>4. ~token
  BY <1>1 DEF IInv, SessionsKnow, SessionKnows
<1>5. MailboxCovered' /\ SecretKept'
  BY <1>1, <1>2, <1>4 DEF IInv, MailboxCovered, StoredOnce, CursorCovers, Covered, SecretKept
<1>6. \A r \in Sessions \ {s}, u \in Session : u = session[r] => SessionKnows(u)'
  BY <1>1, KnowsBeside DEF RowFree
<1> QED
  BY <1>1, <1>2, <1>3, <1>5, <1>6, RowStep

-----------------------------------------------------------------------------
(* The theorems.                                                           *)

\* Every operation keeps the invariant.
LEMMA InvStep == IInv /\ [Next]_vars => IInv'
<1> SUFFICES ASSUME IInv, [Next]_vars PROVE IInv'
  OBVIOUS
<1>1. CASE UNCHANGED vars
  BY <1>1 DEF vars, IInv, TypeOK, MailboxCovered, StoredOnce, CursorCovers, Covered, SecretKept,
              SessionsKnow, SessionKnows, Accounted, SessionsApart, Apart
<1>2. CASE Next
  <2>1. PICK s \in Sessions :
          \/ LoadSync(s) \/ ReadGrants(s) \/ Fetch(s) \/ Ingest(s)
          \/ FinishSync(s) \/ FailSync(s) \/ RecordSyncFailure(s)
          \/ LoadGrants(s) \/ SetGrants(s)
          \/ \E cap \in Capabilities, give \in BOOLEAN : Toggle(s, cap, give)
          \/ LoadDisconnect(s) \/ RevokeAtProvider(s) \/ ClearGrants(s) \/ Disconnect(s)
          \/ Rollback(s)
    BY <1>2 DEF Next
  <2> QED
    BY <2>1, InvLoadSync, InvReadGrants, InvFetch, InvIngest, InvFinishSync, InvFailSync,
       InvRecordSyncFailure, InvLoadGrants, InvSetGrants, InvToggle, InvLoadDisconnect,
       InvRevokeAtProvider, InvClearGrants, InvDisconnect, InvRollback
<1> QED
  BY <1>1, <1>2

\* The invariant holds in every reachable state.
THEOREM ConnectorInvariant == Spec => []IInv
  BY InvInit, InvStep, PTL DEF Spec

\* Every variable has its type in every reachable state.
THEOREM ConnectorTypes == Spec => []TypeOK
<1>1. IInv => TypeOK
  BY DEF IInv
<1> QED
  BY <1>1, ConnectorInvariant, PTL

\* However many syncs overlap, fail and start over, no message is lost behind the
\* cursor and none is stored twice.
THEOREM NothingLostOrDoubled == Spec => []MailboxCovered
<1>1. IInv => MailboxCovered
  BY DEF IInv
<1> QED
  BY <1>1, ConnectorInvariant, PTL

\* No connector is recorded as disconnected whose token the provider still accepts.
THEOREM RevocationFirst == Spec => []RevokedBeforeRecorded
<1>1. IInv => RevokedBeforeRecorded
  BY DEF IInv, SecretKept, RevokedBeforeRecorded
<1> QED
  BY <1>1, ConnectorInvariant, PTL

\* No sync, consent or recorded failure that began before a disconnect takes it back.
THEOREM DisconnectIsFinal == Spec => DisconnectedForGood
<1> DEFINE Stays == conn.status = "DISCONNECTED" => conn'.status = "DISCONNECTED" /\ ~conn'.secret
<1>1. IInv /\ [Next]_vars => [Stays]_vars
  <2> SUFFICES ASSUME IInv, Next, conn.status = "DISCONNECTED"
               PROVE  conn'.status = "DISCONNECTED" /\ ~conn'.secret
    OBVIOUS
  <2>1. ~conn.secret /\ conn \in ConnRows
    BY DEF IInv, SecretKept, TypeOK, ConnRows
  <2>2. PICK s \in Sessions :
          \/ UNCHANGED conn \/ FinishSync(s) \/ RecordSyncFailure(s) \/ SetGrants(s) \/ Disconnect(s)
    <3>1. \A s \in Sessions : LoadSync(s) \/ ReadGrants(s) \/ FailSync(s) => UNCHANGED conn
      BY DEF LoadSync, ReadGrants, FailSync
    <3>2. \A s \in Sessions : LoadGrants(s) \/ LoadDisconnect(s) \/ RevokeAtProvider(s) \/ ClearGrants(s) \/ Rollback(s)
            => UNCHANGED conn
      BY DEF LoadGrants, LoadDisconnect, RevokeAtProvider, ClearGrants, Rollback
    <3> QED
      BY <3>1, <3>2 DEF Next, Fetch, Ingest, Toggle
  <2>3. CASE UNCHANGED conn
    BY <2>1, <2>3
  <2>4. CASE FinishSync(s)
    <3>1. ~session[s].row
      BY DEF IInv, SessionsKnow, SessionKnows
    <3> QED
      BY <2>1, <2>4, <3>1 DEF FinishSync, Resumed, ConnRows
  <2>5. CASE RecordSyncFailure(s)
    BY <2>1, <2>5 DEF RecordSyncFailure, Failed
  <2>6. CASE SetGrants(s)
    BY <2>1, <2>6 DEF SetGrants, Check
  <2>7. CASE Disconnect(s)
    BY <2>7 DEF Disconnect, Disconnected
  <2> QED
    BY <2>2, <2>3, <2>4, <2>5, <2>6, <2>7
<1> QED
  BY <1>1, ConnectorInvariant, PTL DEF Spec, DisconnectedForGood

-----------------------------------------------------------------------------
(* Sessions that keep out of one another's way.                            *)

\* What a session alone at work, at t, relies on, of the row c and the grants g: the
\* status it loaded still is the status, a sync's grants are still there and a failed
\* connector is one it has healed, a consent asks for what follows from the grants it
\* leaves, and a disconnect has locked every grant there is.
AloneKnows(t, c, g) ==
  /\ t.at = "loaded" => t.status = c.status
  /\ t.at \in {"page", "holding"} => g # {} /\ (c.status = "SYNC_FAILED" => t.row)
  /\ t.at = "asked" => t.status = c.status /\ c.status # "DISCONNECTED"
  /\ t.at = "toggled" => /\ c.status # "DISCONNECTED"
                         /\ t.status = Consent(c.status, IF t.give THEN g \cup t.caps ELSE g \ t.caps)
  /\ t.at = "cleared" => t.caps = g /\ ~t.give

\* What the row says agrees with the grants, and with itself.
Consistent(c, g) ==
  /\ c.status \in {"DISCONNECTED", "PENDING_AUTHORIZATION"} => g = {}
  /\ c.status = "ACTIVE" => g # {}
  /\ c.status = "SYNC_FAILED" => c.error # None

AloneInv ==
  /\ \A r, s \in Sessions : session[r].at # "idle" /\ session[s].at # "idle" => r = s
  /\ \A s \in Sessions : AloneKnows(session[s], conn, grants)
  /\ Consistent(conn, grants)

\* No session begins while another is at work.
NoOverlap == session' = session \/ \A s \in Busy : session'[s] # session[s]

\* A session moves, and everybody else is idle.
LEMMA AloneMoves ==
  ASSUME IInv, AloneInv, NoOverlap, NEW s \in Sessions, NEW t, t # session[s],
         session' = [session EXCEPT ![s] = t],
         AloneKnows(t, conn', grants'), Consistent(conn', grants')
  PROVE  AloneInv'
<1>1. /\ session'[s] = t
      /\ \A r \in Sessions \ {s} : session'[r] = session[r]
  BY DEF IInv, TypeOK
<1>2. \A r \in Sessions \ {s} : session[r].at = "idle"
  <2> SUFFICES ASSUME NEW r \in Sessions \ {s}, session[r].at # "idle" PROVE FALSE
    OBVIOUS
  <2>1. r \in Busy
    BY DEF Busy
  <2> QED
    BY <1>1, <2>1 DEF NoOverlap
<1>3. \A r \in Sessions \ {s} : session'[r].at = "idle"
  BY <1>1, <1>2
<1>4. \A q, r \in Sessions : session'[q].at # "idle" /\ session'[r].at # "idle" => q = r
  BY <1>3
<1>5. ASSUME NEW r \in Sessions PROVE AloneKnows(session'[r], conn', grants')
  <2>1. CASE r = s
    BY <1>1, <2>1
  <2>2. CASE r # s
    BY <1>3, <2>2 DEF AloneKnows
  <2> QED
    BY <2>1, <2>2
<1> QED
  BY <1>4, <1>5 DEF AloneInv

\* So does one that changes no row, to a place where there is nothing to rely on.
LEMMA AloneRests ==
  ASSUME IInv, AloneInv, NoOverlap, NEW s \in Sessions, NEW t, t.at # session[s].at,
         session' = [session EXCEPT ![s] = t], UNCHANGED <<conn, grants>>,
         t.at \in {"idle", "failed", "leaving", "revoked"}
  PROVE  AloneInv'
<1>1. t # session[s]
  OBVIOUS
<1>2. AloneKnows(t, conn', grants') /\ Consistent(conn', grants')
  BY DEF AloneKnows, AloneInv
<1> QED
  BY <1>1, <1>2, AloneMoves

\* What every operation starts from.
LEMMA AloneStart ==
  ASSUME IInv, AloneInv, NEW s \in Sessions
  PROVE  /\ session[s] \in Session /\ AloneKnows(session[s], conn, grants)
         /\ Consistent(conn, grants) /\ conn \in ConnRows /\ grants \in SUBSET Capabilities
  BY DEF IInv, TypeOK, AloneInv, ConnRows

\* A sync reads, inserts, and gives up.
LEMMA AloneSync ==
  ASSUME IInv, AloneInv, NoOverlap, NEW s \in Sessions,
         \/ LoadSync(s) \/ ReadGrants(s) \/ Fetch(s) \/ Ingest(s) \/ FailSync(s) \/ Rollback(s)
  PROVE  AloneInv'
<1> DEFINE mine == session[s]
<1>1. /\ mine \in Session /\ AloneKnows(mine, conn, grants)
      /\ Consistent(conn, grants) /\ conn \in ConnRows /\ grants \in SUBSET Capabilities
  BY AloneStart
<1>2. UNCHANGED <<conn, grants>>
  BY DEF LoadSync, ReadGrants, Fetch, Ingest, FailSync, Rollback
<1>3. Idle.at = "idle" /\ [Idle EXCEPT !.at = "failed"].at = "failed"
  BY DEF Idle
<1>4. CASE LoadSync(s)
  <2>1. PICK backfill \in BOOLEAN : session' = [session EXCEPT ![s] =
           IF conn.status \in {"ACTIVE", "SYNC_FAILED"} /\ conn.secret
           THEN [Idle EXCEPT !.at = "loaded", !.status = conn.status, !.cursor = IF backfill THEN 0 ELSE conn.cursor]
           ELSE [Idle EXCEPT !.at = "failed"]]
    BY <1>4 DEF LoadSync
  <2>2. mine.at = "idle"
    BY <1>4 DEF LoadSync
  <2>3. CASE conn.status \in {"ACTIVE", "SYNC_FAILED"} /\ conn.secret
    <3> DEFINE t == [Idle EXCEPT !.at = "loaded", !.status = conn.status, !.cursor = IF backfill THEN 0 ELSE conn.cursor]
    <3>1. session' = [session EXCEPT ![s] = t]
      BY <2>1, <2>3
    <3>2. t.at = "loaded" /\ t.status = conn.status
      BY DEF Idle
    <3> HIDE DEF t
    <3>3. AloneKnows(t, conn', grants') /\ t # mine
      BY <1>2, <2>2, <3>2 DEF AloneKnows
    <3> QED
      BY <1>1, <1>2, <3>1, <3>3, AloneMoves
  <2>4. CASE ~(conn.status \in {"ACTIVE", "SYNC_FAILED"} /\ conn.secret)
    <3>1. session' = [session EXCEPT ![s] = [Idle EXCEPT !.at = "failed"]]
      BY <2>1, <2>4
    <3> QED
      BY <1>2, <1>3, <2>2, <3>1, AloneRests
  <2> QED
    BY <2>3, <2>4
<1>5. CASE ReadGrants(s)
  <2> DEFINE heals == mine.status = "SYNC_FAILED" /\ conn.status = "SYNC_FAILED"
             t == [mine EXCEPT !.at = "page", !.status = None, !.granted = grants, !.row = heals]
  <2>1. mine.at = "loaded"
    BY <1>5 DEF ReadGrants
  <2>2. CASE grants = {}
    <3>1. session' = [session EXCEPT ![s] = [Idle EXCEPT !.at = "failed"]]
      BY <1>5, <2>2 DEF ReadGrants
    <3> QED
      BY <1>2, <1>3, <2>1, <3>1, AloneRests
  <2>3. CASE grants # {}
    <3>1. session' = [session EXCEPT ![s] = t]
      BY <1>5, <2>3 DEF ReadGrants
    <3>2. t.at = "page" /\ t.row = heals
      BY <1>1 DEF Session
    <3>3. conn.status = "SYNC_FAILED" => heals
      BY <1>1, <2>1 DEF AloneKnows
    <3> HIDE DEF t, heals
    <3>4. AloneKnows(t, conn', grants') /\ t # mine
      BY <1>2, <2>1, <2>3, <3>2, <3>3 DEF AloneKnows
    <3> QED
      BY <1>1, <1>2, <3>1, <3>4, AloneMoves
  <2> QED
    BY <2>2, <2>3
<1>6. CASE Fetch(s)
  <2> DEFINE t == [mine EXCEPT !.at = "holding", !.cursor = NextPage(mine.cursor), !.pages = mine.pages + 1]
  <2>1. mine.at = "page" /\ session' = [session EXCEPT ![s] = t]
    BY <1>6 DEF Fetch
  <2>2. t.at = "holding" /\ t.row = mine.row
    BY <1>1 DEF Session
  <2> HIDE DEF t
  <2>3. AloneKnows(t, conn', grants') /\ t # mine
    BY <1>1, <1>2, <2>1, <2>2 DEF AloneKnows
  <2> QED
    BY <1>1, <1>2, <2>1, <2>3, AloneMoves
<1>7. CASE Ingest(s)
  <2>1. mine.at = "holding"
    BY <1>7 DEF Ingest
  <2>2. PICK t : session' = [session EXCEPT ![s] = t] /\ t.at = "page" /\ t.row = mine.row
    <3> DEFINE Passing == [mine EXCEPT !.at = "page", !.missed = mine.missed \cup {mine.cursor}]
               Storing == [mine EXCEPT !.at = "page",
                             !.wrote = IF store[Prepared(s)] > 0 THEN mine.wrote ELSE mine.wrote \cup {Prepared(s)}]
    <3>1. session' = [session EXCEPT ![s] = Passing] \/ session' = [session EXCEPT ![s] = Storing]
      BY <1>7 DEF Ingest
    <3>2. Passing.at = "page" /\ Passing.row = mine.row /\ Storing.at = "page" /\ Storing.row = mine.row
      BY <1>1 DEF Session
    <3> HIDE DEF Passing, Storing
    <3> QED
      BY <3>1, <3>2
  <2>3. AloneKnows(t, conn', grants') /\ t # mine
    BY <1>1, <1>2, <2>1, <2>2 DEF AloneKnows
  <2> QED
    BY <1>1, <1>2, <2>2, <2>3, AloneMoves
<1>8. CASE FailSync(s)
  BY <1>2, <1>3, <1>8, AloneRests DEF FailSync
<1>9. CASE Rollback(s)
  BY <1>2, <1>3, <1>9, AloneRests DEF Rollback
<1> QED
  BY <1>4, <1>5, <1>6, <1>7, <1>8, <1>9

\* A sync commits: a connector it has healed is active with what was granted, and no
\* other is failed.
LEMMA AloneFinishSync ==
  ASSUME IInv, AloneInv, NoOverlap, NEW s \in Sessions, FinishSync(s) PROVE AloneInv'
<1> DEFINE mine == session[s]
<1>1. /\ mine \in Session /\ AloneKnows(mine, conn, grants)
      /\ Consistent(conn, grants) /\ conn \in ConnRows
  BY AloneStart
<1>2. mine.at = "page" /\ conn' = Resumed(s) /\ grants' = grants /\ session' = [session EXCEPT ![s] = Idle]
  BY DEF FinishSync
<1>3. conn'.status = IF mine.row THEN "ACTIVE" ELSE conn.status
  BY <1>1, <1>2 DEF Resumed, ConnRows
<1>4. conn'.status # "SYNC_FAILED" /\ grants' # {} /\ conn'.status \notin {"DISCONNECTED", "PENDING_AUTHORIZATION"}
  BY <1>1, <1>2, <1>3 DEF AloneKnows, Consistent
<1>5. Idle.at = "idle"
  BY DEF Idle
<1>6. AloneKnows(Idle, conn', grants') /\ Consistent(conn', grants') /\ Idle # mine
  BY <1>2, <1>4, <1>5 DEF AloneKnows, Consistent
<1> QED
  BY <1>2, <1>6, AloneMoves

\* A failure is recorded with its reason.
LEMMA AloneRecordSyncFailure ==
  ASSUME IInv, AloneInv, NoOverlap, NEW s \in Sessions, RecordSyncFailure(s) PROVE AloneInv'
<1>1. Consistent(conn, grants) /\ conn \in ConnRows
  BY AloneStart
<1>2. /\ session[s].at = "failed" /\ conn' = Failed /\ grants' = grants
      /\ session' = [session EXCEPT ![s] = Idle]
  BY DEF RecordSyncFailure
<1>3. \/ conn' = conn
      \/ conn'.status = "SYNC_FAILED" /\ conn'.error = "reason"
  BY <1>1, <1>2 DEF Failed, ConnRows
<1>4. Idle.at = "idle"
  BY DEF Idle
<1>5. AloneKnows(Idle, conn', grants') /\ Consistent(conn', grants') /\ Idle # session[s]
  BY <1>1, <1>2, <1>3, <1>4, NoneAssumption DEF AloneKnows, Consistent
<1> QED
  BY <1>2, <1>5, AloneMoves

\* A consent is judged, and written, by the status that still is.
LEMMA AloneConsent ==
  ASSUME IInv, AloneInv, NoOverlap, NEW s \in Sessions,
         \/ LoadGrants(s) \/ SetGrants(s)
         \/ \E cap \in Capabilities, give \in BOOLEAN : Toggle(s, cap, give)
  PROVE  AloneInv'
<1> DEFINE mine == session[s]
<1>1. /\ mine \in Session /\ AloneKnows(mine, conn, grants)
      /\ Consistent(conn, grants) /\ conn \in ConnRows /\ grants \in SUBSET Capabilities
  BY AloneStart
<1>2. CASE LoadGrants(s)
  <2> DEFINE t == [Idle EXCEPT !.at = "asked", !.status = conn.status]
  <2>1. /\ mine.at = "idle" /\ conn.status # "DISCONNECTED" /\ UNCHANGED <<conn, grants>>
        /\ session' = [session EXCEPT ![s] = t]
    BY <1>2 DEF LoadGrants
  <2>2. t.at = "asked" /\ t.status = conn.status
    BY DEF Idle
  <2> HIDE DEF t
  <2>3. AloneKnows(t, conn', grants') /\ t # mine
    BY <2>1, <2>2 DEF AloneKnows
  <2> QED
    BY <1>1, <2>1, <2>3, AloneMoves
<1>3. ASSUME NEW cap \in Capabilities, NEW give \in BOOLEAN, Toggle(s, cap, give) PROVE AloneInv'
  <2> DEFINE status == Consent(mine.status, Granted({cap}, give))
             t == [mine EXCEPT !.at = "toggled", !.caps = {cap}, !.give = give, !.status = status]
  <2>1. mine.at = "asked" /\ UNCHANGED <<conn, grants>> /\ session' = [session EXCEPT ![s] = t]
    BY <1>3 DEF Toggle
  <2>2. t.at = "toggled" /\ t.caps = {cap} /\ t.give = give /\ t.status = status
    BY <1>1 DEF Session
  <2>3. mine.status = conn.status /\ conn.status # "DISCONNECTED"
    BY <1>1, <2>1 DEF AloneKnows
  <2>4. status = Consent(conn.status, IF t.give THEN grants \cup t.caps ELSE grants \ t.caps)
    BY <2>2, <2>3 DEF Granted
  <2> HIDE DEF t, status
  <2>5. AloneKnows(t, conn', grants') /\ t # mine
    BY <2>1, <2>2, <2>3, <2>4 DEF AloneKnows
  <2> QED
    BY <1>1, <2>1, <2>5, AloneMoves
<1>4. CASE SetGrants(s)
  <2>1. /\ mine.at = "toggled" /\ grants' = Granted(mine.caps, mine.give)
        /\ session' = [session EXCEPT ![s] = Idle]
        /\ \/ mine.status = None /\ UNCHANGED conn
           \/ mine.status # None /\ conn' = [conn EXCEPT !.status = mine.status]
    BY <1>4 DEF SetGrants
  <2>2. conn.status # "DISCONNECTED" /\ mine.status = Consent(conn.status, grants')
    BY <1>1, <2>1 DEF AloneKnows, Granted
  <2>3. conn'.error = conn.error /\ conn.status \in Statuses
    BY <1>1, <2>1 DEF ConnRows
  <2>4. conn'.status = IF conn.status = "SYNC_FAILED" THEN "SYNC_FAILED"
                       ELSE IF grants' = {} THEN "PENDING_AUTHORIZATION" ELSE "ACTIVE"
    BY <1>1, <2>1, <2>2, <2>3, NoneAssumption DEF Consent, Statuses, ConnRows
  <2>5. Idle.at = "idle"
    BY DEF Idle
  <2>6. AloneKnows(Idle, conn', grants') /\ Consistent(conn', grants') /\ Idle # mine
    BY <1>1, <2>1, <2>3, <2>4, <2>5 DEF AloneKnows, Consistent
  <2> QED
    BY <2>1, <2>6, AloneMoves
<1> QED
  BY <1>2, <1>3, <1>4

\* A disconnect takes every grant there is.
LEMMA AloneDisconnect ==
  ASSUME IInv, AloneInv, NoOverlap, NEW s \in Sessions,
         LoadDisconnect(s) \/ RevokeAtProvider(s) \/ ClearGrants(s) \/ Disconnect(s)
  PROVE  AloneInv'
<1> DEFINE mine == session[s]
<1>1. /\ mine \in Session /\ AloneKnows(mine, conn, grants)
      /\ Consistent(conn, grants) /\ conn \in ConnRows /\ grants \in SUBSET Capabilities
  BY AloneStart
<1>2. CASE LoadDisconnect(s)
  <2> DEFINE t == [Idle EXCEPT !.at = IF conn.secret THEN "leaving" ELSE "revoked"]
  <2>1. mine.at = "idle" /\ UNCHANGED <<conn, grants>> /\ session' = [session EXCEPT ![s] = t]
    BY <1>2 DEF LoadDisconnect
  <2>2. t.at \in {"leaving", "revoked"}
    BY DEF Idle
  <2> HIDE DEF t
  <2> QED
    BY <2>1, <2>2, AloneRests
<1>3. CASE RevokeAtProvider(s)
  <2> DEFINE t == [mine EXCEPT !.at = "revoked"]
  <2>1. mine.at = "leaving" /\ UNCHANGED <<conn, grants>> /\ session' = [session EXCEPT ![s] = t]
    BY <1>3 DEF RevokeAtProvider
  <2>2. t.at = "revoked"
    BY <1>1 DEF Session
  <2> HIDE DEF t
  <2> QED
    BY <2>1, <2>2, AloneRests
<1>4. CASE ClearGrants(s)
  <2> DEFINE t == [mine EXCEPT !.at = "cleared", !.caps = Leaving, !.give = FALSE]
  <2>1. mine.at = "revoked" /\ UNCHANGED <<conn, grants>> /\ session' = [session EXCEPT ![s] = t]
    BY <1>4 DEF ClearGrants
  <2>2. t.at = "cleared" /\ t.caps = grants /\ t.give = FALSE
    BY <1>1 DEF Session, Leaving
  <2> HIDE DEF t
  <2>3. AloneKnows(t, conn', grants') /\ t # mine
    BY <2>1, <2>2 DEF AloneKnows
  <2> QED
    BY <1>1, <2>1, <2>3, AloneMoves
<1>5. CASE Disconnect(s)
  <2>1. /\ mine.at = "cleared" /\ conn' = Disconnected /\ grants' = Granted(mine.caps, FALSE)
        /\ session' = [session EXCEPT ![s] = Idle]
    BY <1>5 DEF Disconnect
  <2>2. grants' = {} /\ conn'.status = "DISCONNECTED"
    BY <1>1, <2>1 DEF AloneKnows, Granted, Disconnected
  <2>3. Idle.at = "idle"
    BY DEF Idle
  <2>4. AloneKnows(Idle, conn', grants') /\ Consistent(conn', grants') /\ Idle # mine
    BY <2>1, <2>2, <2>3 DEF AloneKnows, Consistent
  <2> QED
    BY <2>1, <2>4, AloneMoves
<1> QED
  BY <1>2, <1>3, <1>4, <1>5

\* The instance's run of the connector, and the other part of it, which leaves it alone.
AloneSound == subject = "connector" /\ alone => AloneInv

\* A new connector says what is granted.
LEMMA AloneInit == MCInit => IInv /\ AloneSound
<1> SUFFICES ASSUME MCInit PROVE IInv /\ AloneSound
  OBVIOUS
<1>1. Init /\ IInv
  BY InvInit DEF MCInit
<1>2. Idle.at = "idle"
  BY DEF Idle
<1>3. AloneInv
  BY <1>1, <1>2 DEF Init, AloneInv, AloneKnows, Consistent
<1> QED
  BY <1>1, <1>3 DEF AloneSound

\* Every step of the instance keeps both.
LEMMA ConnectorStep ==
  IInv /\ AloneSound /\ [MCNext]_<<vars, initiativeVars, alone, subject>> => IInv' /\ AloneSound'
<1> SUFFICES ASSUME IInv, AloneSound, [MCNext]_<<vars, initiativeVars, alone, subject>>
             PROVE  IInv' /\ AloneSound'
  OBVIOUS
<1>1. CASE UNCHANGED vars /\ subject' = subject /\ (alone' = alone \/ subject # "connector")
  <2>1. IInv'
    BY <1>1, InvStep
  <2>2. AloneSound'
    BY <1>1 DEF vars, AloneSound, AloneInv
  <2> QED
    BY <2>1, <2>2
<1>2. CASE /\ subject = "connector" /\ Next /\ UNCHANGED subject
           /\ alone' = (alone /\ (session' = session \/ \A s \in Busy : session'[s] # session[s]))
  <2>1. IInv'
    BY <1>2, InvStep
  <2>2. ASSUME alone' PROVE AloneInv'
    <3>1. AloneInv /\ NoOverlap
      BY <1>2, <2>2 DEF NoOverlap, AloneSound
    <3>2. PICK s \in Sessions :
            \/ LoadSync(s) \/ ReadGrants(s) \/ Fetch(s) \/ Ingest(s)
            \/ FinishSync(s) \/ FailSync(s) \/ RecordSyncFailure(s)
            \/ LoadGrants(s) \/ SetGrants(s)
            \/ \E cap \in Capabilities, give \in BOOLEAN : Toggle(s, cap, give)
            \/ LoadDisconnect(s) \/ RevokeAtProvider(s) \/ ClearGrants(s) \/ Disconnect(s)
            \/ Rollback(s)
      BY <1>2 DEF Next
    <3> QED
      BY <3>1, <3>2, AloneSync, AloneFinishSync, AloneRecordSyncFailure, AloneConsent, AloneDisconnect
  <2> QED
    BY <2>1, <2>2 DEF AloneSound
<1> QED
  BY <1>1, <1>2 DEF MCNext

\* When sessions keep out of one another's way, a disconnected connector holds no
\* grant, one shown as failed shows why, and its status follows the grants.
THEOREM ConsistentWithoutOverlap == MCSpec => []ConsistentAlone
<1>1. IInv /\ AloneSound => ConsistentAlone
  BY DEF AloneSound, AloneInv, Consistent, ConsistentAlone, DisconnectRevokesGrants, FailureNamesReason,
         StatusFollowsGrants
<1> QED
  BY <1>1, AloneInit, ConnectorStep, PTL DEF MCSpec

-----------------------------------------------------------------------------
(* The initiative.                                                         *)

-----------------------------------------------------------------------------
(* The least of a set, and the next run.                                   *)

\* A finite set of numbers has a least one: of the parts that reach up to an element,
\* the smallest.
LEMMA LeastOf ==
  ASSUME NEW T, T \subseteq Nat, IsFiniteSet(T), T # {}
  PROVE  Min(T) \in T /\ \A y \in T : Min(T) <= y
<1> DEFINE UpTo(x) == {y \in T : y <= x}
           Parts == {UpTo(x) : x \in T}
<1>1. Parts \subseteq FiniteSubsetsOf(T)
  <2>1. \A x \in T : UpTo(x) \subseteq T /\ IsFiniteSet(UpTo(x))
    BY FS_Subset
  <2> QED
    BY <2>1 DEF FiniteSubsetsOf
<1>2. Parts # {}
  OBVIOUS
<1>3. PICK part \in Parts : \A other \in Parts : ~(<<other, part>> \in StrictSubsetOrdering(T))
  <2> HIDE DEF Parts
  <2> QED
    BY <1>1, <1>2, FS_StrictSubsetOrderingWellFounded, WFMin
<1>4. PICK x \in T : part = UpTo(x)
  BY <1>3
<1>5. ASSUME NEW y \in T PROVE x <= y
  <2> SUFFICES ASSUME y < x PROVE FALSE
    BY <1>4
  <2>1. UpTo(y) \subseteq UpTo(x) /\ x \in UpTo(x) /\ x \notin UpTo(y)
    <3>1. x \in Nat /\ y \in Nat /\ \A z \in T : z \in Nat
      OBVIOUS
    <3>2. x <= x /\ ~(x <= y) /\ \A z \in T : z <= y => z <= x
      BY <3>1
    <3> QED
      BY <3>2
  <2>2. UpTo(y) \in Parts /\ UpTo(y) \subseteq T /\ UpTo(x) \subseteq T
    OBVIOUS
  <2>3. <<UpTo(y), UpTo(x)>> \in StrictSubsetOrdering(T)
    <3> HIDE DEF UpTo
    <3> QED
      BY <2>1, <2>2 DEF StrictSubsetOrdering
  <2> QED
    BY <1>3, <1>4, <2>2, <2>3
<1> QED
  BY <1>5 DEF Min

\* The least of what lies in an interval.
LEMMA LeastWithin ==
  ASSUME NEW k \in Nat, NEW T, T \subseteq 0..k, T # {}
  PROVE  Min(T) \in T
<1>1. IsFiniteSet(0..k)
  BY FS_Interval
<1>2. IsFiniteSet(T)
  BY <1>1, FS_Subset
<1>3. T \subseteq Nat
  OBVIOUS
<1> QED
  BY <1>2, <1>3, LeastOf

\* The hour of the run comes once in the day that follows.
LEMMA NextRunComes ==
  ASSUME NEW t \in Nat
  PROVE  NextRun(t) \in (t + 1)..(t + Day)
<1> DEFINE q == (t - RunAt) \div Day
           r == RunAt + Day * (q + 1)
           runs == {x \in (t + 1)..(t + Day) : x % Day = RunAt}
<1>1. Day \in Nat \ {0} /\ RunAt \in 0..(Day - 1)
  BY TimeAssumption
<1>2. q \in Int /\ Day * q <= t - RunAt /\ t - RunAt < Day * q + Day
  BY <1>1
<1>3. r \in (t + 1)..(t + Day)
  <2>1. Day * (q + 1) = Day * q + Day
    BY <1>1, <1>2
  <2> HIDE DEF q
  <2> QED
    BY <1>1, <1>2, <2>1
<1>4. r % Day = RunAt
  <2> HIDE DEF q
  <2> QED
    BY <1>1, <1>2
<1>5. runs # {}
  BY <1>3, <1>4
<1>6. runs \subseteq 0..(t + Day)
  BY <1>1
<1> QED
  BY <1>1, <1>5, <1>6, LeastWithin DEF NextRun

-----------------------------------------------------------------------------
(* Turns, and what one step of a worker moves.                              *)

LEMMA Numbers ==
  /\ Day \in Nat \ {0} /\ Horizon \in Nat /\ Quiet \in 0..Horizon
  /\ ScopeCap \in Nat /\ MaxMoves \in Nat /\ Attempts \in Nat \ {0}
  /\ Unset \notin Nat /\ Unset \notin Workers
<1>1. ScopeCap \in {Cap, ScopeCap, MaxMoves} /\ MaxMoves \in {Cap, ScopeCap, MaxMoves}
  OBVIOUS
<1> QED
  BY <1>1, TimeAssumption, BudgetAssumption, NameAssumption

\* Days are numbered.
LEMMA TodayIsNat == ASSUME NEW t \in Ticks PROVE Today(t) \in Nat
<1>1. t \in Nat /\ Day \in Nat \ {0}
  BY Numbers DEF Ticks
<1> QED
  BY <1>1 DEF Today

\* A turn at rest, or one that only remembers where it is, knows nothing to be wrong about.
LEMMA RestingIsTurn == Resting \in Turns
<1>1. [w \in Watches |-> Gone] \in [Watches -> States \cup {Gone}]
  OBVIOUS
<1>2. 0 \in Ticks /\ 0 \in 0..MaxMoves
  BY Numbers DEF Ticks
<1>3. "idle" \in TurnPlaces /\ "ASK" \in Decisions
  BY DEF TurnPlaces, Decisions
<1>4. Unset \in Keys \cup {Unset} /\ {} \in SUBSET Watches /\ 0 \in Nat
  OBVIOUS
<1> QED
  BY <1>1, <1>2, <1>3, <1>4, Zenon DEF Resting, Turns

LEMMA UnjudgedHolds ==
  ASSUME NEW t, t.at \notin {"weighing", "weighed"}
  PROVE  Judged(t)
  BY DEF Judged

LEMMA AskedIsNat ==
  ASSUME IsFiniteSet(receipts), NEW d
  PROVE  Asked(d) \in Nat
<1>1. IsFiniteSet({r \in receipts : r.day = d /\ r.decision = "ASK"})
  BY FS_Subset
<1> QED
  BY <1>1, FS_CardinalityType DEF Asked

\* One turn moves: it gets into the lock only when the lock is free.
LEMMA TurnMoves ==
  ASSUME InitiativeInv, NEW p \in Workers, NEW t \in Turns,
         Put(p, t), receipts' = receipts,
         t.at \in Locking => worker[p].at \in Locking \/ LockFree(p),
         Judged(t)
  PROVE  worker' \in [Workers -> Turns] /\ LockExclusive' /\ JudgedUnderLock'
<1>1. worker \in [Workers -> Turns]
  BY DEF InitiativeInv, InitiativeTypeOK
<1>2. /\ worker' \in [Workers -> Turns] /\ worker'[p] = t
      /\ \A q \in Workers \ {p} : worker'[q] = worker[q]
  BY <1>1 DEF Put
<1>3. LockExclusive'
  <2>1. t.at \in Locking => \A q \in Workers \ {p} : worker[q].at \notin Locking
    BY DEF InitiativeInv, LockExclusive, LockFree
  <2> QED
    BY <1>2, <2>1 DEF InitiativeInv, LockExclusive
<1>4. JudgedUnderLock'
  <2>1. \A q \in Workers : Judged(worker'[q])
    BY <1>2 DEF InitiativeInv, JudgedUnderLock
  <2> QED
    BY <2>1 DEF JudgedUnderLock, Judged, Existing, Asked
<1> QED
  BY <1>2, <1>3, <1>4

\* What is left to show of a step that writes no receipt.
LEMMA NoReceipt ==
  ASSUME InitiativeInv, receipts' = receipts,
         InitiativeTypeOK', MovesCounted', LockExclusive', JudgedUnderLock'
  PROVE  InitiativeInv'
<1>1. DOMAIN cards' = DOMAIN cards
  BY DEF InitiativeInv, InitiativeTypeOK
<1>2. AskedOnce' /\ WithinScope' /\ IsFiniteSet(receipts')
  BY <1>1 DEF InitiativeInv, AskedOnce, WithinScope, Asked
<1> QED
  BY <1>2 DEF InitiativeInv

\* A step of a worker that writes no receipt: its turn, the schedule and the tasks.
LEMMA WorkerStep ==
  ASSUME InitiativeInv, NEW p \in Workers, NEW t \in Turns,
         Put(p, t), receipts' = receipts,
         t.at \in Locking => worker[p].at \in Locking \/ LockFree(p),
         Judged(t),
         settings' \in Settings, settings'.enabled <=> settings'.due # Unset,
         settings'.revision = settings.revision,
         DOMAIN jobs' \subseteq Keys, jobs' \in [DOMAIN jobs' -> Jobs],
         moves' \in moves..MaxMoves,
         UNCHANGED <<clock, memory, unmarked, marker, watch, cards, patch, inbox>>
  PROVE  InitiativeInv'
<1>1. worker' \in [Workers -> Turns] /\ LockExclusive' /\ JudgedUnderLock'
  BY TurnMoves
<1>2. moves' \in 0..MaxMoves
  BY DEF InitiativeInv, InitiativeTypeOK
<1>3. InitiativeTypeOK'
  BY <1>1, <1>2 DEF InitiativeInv, InitiativeTypeOK
<1>4. MovesCounted'
  <2>1. settings.revision \in Int /\ marker \in Int /\ moves \in Int /\ moves' \in Int /\ moves <= moves'
    BY Numbers DEF InitiativeInv, InitiativeTypeOK, Settings
  <2> QED
    BY <2>1 DEF InitiativeInv, MovesCounted
<1> QED
  BY <1>1, <1>3, <1>4, NoReceipt

\* One that leaves the schedule and the tasks alone as well.
LEMMA QuietTurn ==
  ASSUME InitiativeInv, NEW p \in Workers, NEW t \in Turns,
         Put(p, t),
         t.at \in Locking => worker[p].at \in Locking \/ LockFree(p),
         Judged(t),
         UNCHANGED <<clock, memory, unmarked, marker, settings, watch, jobs, receipts, cards, patch, inbox, moves>>
  PROVE  InitiativeInv'
<1>1. /\ settings' \in Settings /\ (settings'.enabled <=> settings'.due # Unset)
      /\ settings'.revision = settings.revision
      /\ DOMAIN jobs' \subseteq Keys /\ jobs' \in [DOMAIN jobs' -> Jobs]
  BY DEF InitiativeInv, InitiativeTypeOK
<1>2. moves' \in moves..MaxMoves
  BY Numbers DEF InitiativeInv, InitiativeTypeOK
<1> QED
  BY <1>1, <1>2, WorkerStep

-----------------------------------------------------------------------------
(* dispatch().                                                             *)

\* The fields of a turn, one at a time.
LEMMA TurnFields ==
  ASSUME NEW t \in Turns
  PROVE  /\ t.at \in TurnPlaces /\ t.revision \in Nat /\ t.marker \in 0..MaxMoves /\ t.key \in Keys \cup {Unset}
         /\ t.now \in Ticks /\ t.seen \in [Watches -> States \cup {Gone}] /\ t.todo \in SUBSET Watches
         /\ t.decision \in Decisions
  BY DEF Turns

\* A turn that remembers nothing but where it is.
LEMMA RestingAt ==
  ASSUME NEW place \in TurnPlaces, NEW key \in Keys \cup {Unset}
  PROVE  /\ [Resting EXCEPT !.at = place, !.key = key] \in Turns
         /\ [Resting EXCEPT !.at = place, !.key = key].at = place
         /\ [Resting EXCEPT !.at = place] \in Turns
         /\ [Resting EXCEPT !.at = place].at = place
<1> HIDE DEF Resting
<1>1. Resting \in Turns
  BY RestingIsTurn
<1> QED
  BY <1>1 DEF Turns

LEMMA LookKeeps == ASSUME InitiativeInv, NEW p \in Workers, Look(p) PROVE InitiativeInv'
<1> DEFINE looked == [Resting EXCEPT !.at = "looked", !.revision = settings.revision, !.marker = marker, !.now = clock]
           turn == [Resting EXCEPT !.at = "turn"]
           t == IF settings.enabled THEN looked ELSE turn
<1>1. turn \in Turns /\ turn.at = "turn"
  BY RestingAt DEF TurnPlaces
<1>2. looked \in Turns /\ looked.at = "looked"
  <2>1. settings.revision \in Nat /\ marker \in 0..MaxMoves /\ clock \in Ticks /\ "looked" \in TurnPlaces
    BY Numbers DEF InitiativeInv, InitiativeTypeOK, Settings, TurnPlaces
  <2> HIDE DEF Resting
  <2> QED
    BY <2>1, RestingIsTurn DEF Turns
<1>3. Put(p, t)
  BY DEF Look
<1> HIDE DEF looked, turn
<1>4. t \in Turns /\ t.at \in {"looked", "turn"}
  BY <1>1, <1>2
<1> HIDE DEF t
<1>5. Judged(t) /\ t.at \notin Locking
  BY <1>4, UnjudgedHolds DEF Locking
<1> QED
  BY <1>3, <1>4, <1>5, QuietTurn DEF Look

\* The next run is a time, and stays within the horizon and a day.
LEMMA NextRunIsTime ==
  ASSUME NEW t \in Ticks
  PROVE  NextRun(t) \in Times /\ NextRun(t) # Unset
<1>1. t \in Nat /\ t <= Horizon
  BY Numbers DEF Ticks
<1>2. NextRun(t) \in (t + 1)..(t + Day)
  BY <1>1, NextRunComes
<1> QED
  BY <1>1, <1>2, Numbers DEF Times

LEMMA EnqueueKeeps == ASSUME InitiativeInv, NEW p \in Workers, Enqueue(p) PROVE InitiativeInv'
<1> DEFINE t == [Resting EXCEPT !.at = "turn"]
           mine == worker[p]
           queued == settings.enabled /\ settings.revision = mine.revision
                       /\ (IsDue(mine.now) \/ settings.marker # mine.marker)
           task == [phase |-> "open", used |-> 0, by |-> Unset]
<1>1. t \in Turns /\ t.at = "turn" /\ t.at \notin Locking
  <2>1. "turn" \in TurnPlaces /\ "turn" \notin Locking
    BY DEF TurnPlaces, Locking
  <2> QED
    BY <2>1, RestingAt
<1>2. Put(p, t)
  BY DEF Enqueue
<1>3. mine \in Turns /\ settings \in Settings /\ (settings.enabled <=> settings.due # Unset)
  BY DEF InitiativeInv, InitiativeTypeOK
<1>4. CASE queued
  <2>1. jobs' = [k \in DOMAIN jobs \cup {Key(mine)} |-> IF k \in DOMAIN jobs THEN jobs[k] ELSE task]
    BY <1>4 DEF Enqueue
  <2>2. settings' = [settings EXCEPT !.due = NextRun(mine.now), !.marker = mine.marker]
    BY <1>4 DEF Enqueue
  <2>3. Key(mine) \in Keys
    <3>1. settings.revision \in 1..(MaxMoves + 1) /\ mine.marker \in 0..MaxMoves
      BY <1>3 DEF Settings, Turns
    <3>2. (IF IsDue(mine.now) THEN settings.due ELSE Unset) \in Times
      BY <1>3 DEF Settings, Times
    <3> QED
      BY <3>1, <3>2 DEF Key, Keys
  <2>4. task \in Jobs
    BY Numbers DEF Jobs
  <2>5. DOMAIN jobs' \subseteq Keys /\ jobs' \in [DOMAIN jobs' -> Jobs]
    <3> HIDE DEF task
    <3> QED
      BY <2>1, <2>3, <2>4 DEF InitiativeInv, InitiativeTypeOK
  <2>6. settings' \in Settings /\ settings'.enabled = settings.enabled /\ settings'.revision = settings.revision
        /\ settings'.due # Unset
    <3>1. mine.now \in Ticks /\ mine.marker \in 0..MaxMoves
      BY <1>3 DEF Turns
    <3>2. NextRun(mine.now) \in Times /\ NextRun(mine.now) # Unset
      BY <3>1, NextRunIsTime
    <3> QED
      BY <1>3, <2>2, <3>1, <3>2 DEF Settings
  <2>7. settings'.enabled <=> settings'.due # Unset
    BY <1>4, <2>6
  <2>8. moves' \in moves..MaxMoves
    BY Numbers DEF InitiativeInv, InitiativeTypeOK, Enqueue
  <2> HIDE DEF t, queued
  <2> QED
    BY <1>1, <1>2, <2>5, <2>6, <2>7, <2>8, UnjudgedHolds, WorkerStep DEF Enqueue
<1>5. CASE ~queued
  <2>1. UNCHANGED <<jobs, settings>>
    BY <1>5 DEF Enqueue
  <2> HIDE DEF t, queued
  <2> QED
    BY <1>1, <1>2, <2>1, UnjudgedHolds, QuietTurn DEF Enqueue
<1> QED
  BY <1>4, <1>5

LEMMA PassKeeps == ASSUME InitiativeInv, NEW p \in Workers, Pass(p) PROVE InitiativeInv'
<1>1. Resting \in Turns /\ Resting.at = "idle" /\ Resting.at \notin Locking
  BY RestingIsTurn DEF Resting, Locking
<1>2. Judged(Resting)
  BY <1>1, UnjudgedHolds
<1> QED
  BY <1>1, <1>2, QuietTurn DEF Pass

-----------------------------------------------------------------------------
(* handle().                                                               *)

\* One task changes, to what a task may be.
LEMMA TaskMoves ==
  ASSUME InitiativeInv, NEW key, NEW task \in Jobs, jobs' = [jobs EXCEPT ![key] = task]
  PROVE  DOMAIN jobs' \subseteq Keys /\ jobs' \in [DOMAIN jobs' -> Jobs]
  BY DEF InitiativeInv, InitiativeTypeOK

\* A move, or none.
LEMMA MoveCounts ==
  ASSUME InitiativeInv, Move \/ moves' = moves
  PROVE  moves' \in moves..MaxMoves
  BY Numbers DEF InitiativeInv, InitiativeTypeOK, Move

LEMMA ClaimKeeps ==
  ASSUME InitiativeInv, NEW p \in Workers, NEW key \in DOMAIN jobs, Claim(p, key)
  PROVE  InitiativeInv'
<1> DEFINE t == [Resting EXCEPT !.at = "claimed", !.key = key]
           task == [phase |-> "open", used |-> jobs[key].used + 1, by |-> p]
<1>1. t \in Turns /\ t.at = "claimed" /\ t.at \notin Locking
  <2>1. key \in Keys \cup {Unset} /\ "claimed" \in TurnPlaces
    BY DEF InitiativeInv, InitiativeTypeOK, TurnPlaces
  <2> QED
    BY <2>1, RestingAt DEF Locking
<1>2. Put(p, t) /\ jobs' = [jobs EXCEPT ![key] = task]
  BY DEF Claim
<1>3. task \in Jobs
  <2>1. jobs[key] \in Jobs /\ jobs[key].used < Attempts
    BY DEF InitiativeInv, InitiativeTypeOK, Claim, Runnable
  <2> QED
    BY <2>1, Numbers DEF Jobs
<1>4. moves' \in moves..MaxMoves
  BY MoveCounts DEF Claim
<1>5. settings' \in Settings /\ (settings'.enabled <=> settings'.due # Unset) /\ settings'.revision = settings.revision
  BY DEF InitiativeInv, InitiativeTypeOK, Claim
<1> HIDE DEF t, task
<1>6. DOMAIN jobs' \subseteq Keys /\ jobs' \in [DOMAIN jobs' -> Jobs]
  BY <1>2, <1>3, TaskMoves
<1> QED
  BY <1>1, <1>2, <1>4, <1>5, <1>6, UnjudgedHolds, WorkerStep DEF Claim

LEMMA LockKeeps == ASSUME InitiativeInv, NEW p \in Workers, Lock(p) PROVE InitiativeInv'
<1> DEFINE t == [worker[p] EXCEPT !.at = "locked"]
<1>1. worker[p] \in Turns
  BY DEF InitiativeInv, InitiativeTypeOK
<1>2. t \in Turns /\ t.at = "locked"
  BY <1>1 DEF Turns, TurnPlaces, Locking
<1>3. Put(p, t) /\ LockFree(p)
  BY DEF Lock
<1> HIDE DEF t
<1> QED
  BY <1>2, <1>3, UnjudgedHolds, QuietTurn DEF Lock

LEMMA ReadKeeps == ASSUME InitiativeInv, NEW p \in Workers, Read(p) PROVE InitiativeInv'
<1> DEFINE seen == [w \in Watches |-> IF Awake(w, clock) THEN memory[w] ELSE Gone]
           todo == {w \in Watches : Situation(w, seen[w], clock)}
           current == settings.enabled /\ settings.revision = worker[p].key.revision
           reading == [worker[p] EXCEPT !.at = "weighing", !.now = clock, !.seen = seen, !.todo = todo]
           outdated == [worker[p] EXCEPT !.at = "handled"]
<1>1. worker[p] \in Turns /\ worker[p].at \in Locking
  BY DEF InitiativeInv, InitiativeTypeOK, Read, Locking
<1>2. CASE current
  <2>1. Put(p, reading)
    BY <1>2 DEF Read
  <2>2. seen \in [Watches -> States \cup {Gone}] /\ todo \in SUBSET Watches
    BY DEF InitiativeInv, InitiativeTypeOK
  <2>3. \A w \in todo : seen[w] \in States
    BY <2>2 DEF Situation
  <2> HIDE DEF seen, todo
  <2>4. reading \in Turns /\ reading.at = "weighing" /\ reading.todo = todo /\ reading.seen = seen
    <3>1. clock \in Ticks /\ "weighing" \in TurnPlaces
      BY DEF InitiativeInv, InitiativeTypeOK, TurnPlaces, Locking
    <3> QED
      BY <1>1, <2>2, <3>1 DEF Turns
  <2> HIDE DEF reading
  <2>5. Judged(reading)
    BY <2>3, <2>4 DEF Judged
  <2> QED
    BY <1>1, <2>1, <2>4, <2>5, QuietTurn DEF Read
<1>3. CASE ~current
  <2>1. Put(p, outdated)
    BY <1>3 DEF Read
  <2>2. outdated \in Turns /\ outdated.at = "handled" /\ outdated.at \notin Locking
    BY <1>1 DEF Turns, TurnPlaces, Locking
  <2> HIDE DEF outdated
  <2> QED
    BY <2>1, <2>2, UnjudgedHolds, QuietTurn DEF Read
<1> QED
  BY <1>2, <1>3

LEMMA PassOverKeeps == ASSUME InitiativeInv, NEW p \in Workers, PassOver(p) PROVE InitiativeInv'
<1> DEFINE t == [worker[p] EXCEPT !.todo = @ \ {Min(worker[p].todo)}]
<1>1. worker[p] \in Turns /\ worker[p].at = "weighing" /\ worker[p].at \in Locking /\ Judged(worker[p])
  BY DEF InitiativeInv, InitiativeTypeOK, JudgedUnderLock, PassOver, Locking
<1>2. t \in Turns /\ t.at = "weighing" /\ t.todo \subseteq worker[p].todo /\ t.seen = worker[p].seen
  BY <1>1 DEF Turns
<1>3. Put(p, t)
  BY DEF PassOver
<1> HIDE DEF t
<1>4. Judged(t)
  BY <1>1, <1>2 DEF Judged
<1> QED
  BY <1>1, <1>2, <1>3, <1>4, QuietTurn DEF PassOver

\* A question is asked only when the scope has room.
LEMMA InterruptHasRoom ==
  ASSUME IsFiniteSet(receipts), NEW d
  PROVE  /\ Interrupt(d) \in Decisions
         /\ Interrupt(d) = "ASK" => Asked(d) < ScopeCap
<1>1. Asked(d) \in Nat /\ ScopeCap \in Nat
  BY AskedIsNat, Numbers
<1> QED
  BY <1>1 DEF Interrupt, Decisions

LEMMA WeighKeeps == ASSUME InitiativeInv, NEW p \in Workers, Weigh(p) PROVE InitiativeInv'
<1> DEFINE day == Today(worker[p].now)
           decision == Interrupt(day)
           t == [worker[p] EXCEPT !.at = "weighed", !.decision = decision]
<1>1. worker[p] \in Turns /\ worker[p].at = "weighing" /\ worker[p].at \in Locking /\ Judged(worker[p])
  BY DEF InitiativeInv, InitiativeTypeOK, JudgedUnderLock, Weigh, Locking
<1>2. decision \in Decisions /\ (decision = "ASK" => Asked(day) < ScopeCap)
  BY InterruptHasRoom DEF InitiativeInv
<1>3. Put(p, t)
  BY DEF Weigh
<1> HIDE DEF decision
<1>4. /\ t \in Turns /\ t.at = "weighed" /\ t.todo = worker[p].todo /\ t.seen = worker[p].seen
      /\ t.now = worker[p].now /\ t.decision = decision
  <2>1. "weighed" \in TurnPlaces
    BY DEF TurnPlaces, Locking
  <2> QED
    BY <1>1, <1>2, <2>1 DEF Turns
<1> HIDE DEF t
<1>5. Judged(t)
  <2>1. \A v \in t.todo : t.seen[v] \in States
    BY <1>1, <1>4 DEF Judged
  <2>2. t.todo # {}
    BY <1>4 DEF Weigh
  <2>3. ~Existing(Min(t.todo), t.seen[Min(t.todo)], Threshold(Min(t.todo), t.seen[Min(t.todo)], t.now), Today(t.now))
    BY <1>4 DEF Weigh
  <2>4. t.decision = "ASK" => Asked(Today(t.now)) < ScopeCap
    BY <1>2, <1>4
  <2> QED
    BY <2>1, <2>2, <2>3, <2>4 DEF Judged
<1> QED
  BY <1>1, <1>3, <1>4, <1>5, QuietTurn DEF Weigh

\* The oldest watch left is one of them.
LEMMA OldestLeft ==
  ASSUME NEW todo \in SUBSET Watches, todo # {}
  PROVE  Min(todo) \in todo
<1>1. todo \subseteq Nat /\ IsFiniteSet(todo)
  BY NameAssumption, FS_Subset
<1> QED
  BY <1>1, LeastOf

LEMMA ThresholdIsOne == \A w, state, now : Threshold(w, state, now) \in Thresholds
  BY Zenon DEF Threshold, Thresholds

\* The receipt of what was weighed is one.
LEMMA ReceiptOfWeighed ==
  ASSUME InitiativeInv, NEW p \in Workers, worker[p].at = "weighed"
  PROVE  LET w == Min(worker[p].todo)
             r == Receipt(p, w)
         IN  /\ r \in Receipts
             /\ r.watch = w /\ r.state = worker[p].seen[w]
             /\ r.threshold = Threshold(w, worker[p].seen[w], worker[p].now)
             /\ r.day = Today(worker[p].now) /\ r.decision = worker[p].decision
<1> DEFINE mine == worker[p]
           w == Min(mine.todo)
           threshold == Threshold(w, mine.seen[w], mine.now)
           day == Today(mine.now)
<1>1. mine \in Turns /\ Judged(mine)
  BY DEF InitiativeInv, InitiativeTypeOK, JudgedUnderLock
<1>2. mine.todo \in SUBSET Watches /\ mine.todo # {} /\ mine.now \in Ticks /\ mine.decision \in Decisions
  BY <1>1 DEF Turns, Judged
<1>3. w \in mine.todo /\ w \in Watches
  BY <1>2, OldestLeft
<1>4. mine.seen[w] \in States
  BY <1>1, <1>3 DEF Judged
<1>5. threshold \in Thresholds /\ day \in Nat
  BY <1>2, ThresholdIsOne, TodayIsNat
<1>6. Receipt(p, w) = [watch |-> w, state |-> mine.seen[w], threshold |-> threshold, day |-> day, decision |-> mine.decision]
  BY DEF Receipt
<1> HIDE DEF threshold, day, w, mine
<1>7. /\ Receipt(p, w) \in Receipts
      /\ Receipt(p, w).watch = w /\ Receipt(p, w).state = mine.seen[w] /\ Receipt(p, w).threshold = threshold
      /\ Receipt(p, w).day = day /\ Receipt(p, w).decision = mine.decision
  BY <1>2, <1>3, <1>4, <1>5, <1>6 DEF Receipts, Decisions
<1> QED
  BY <1>7 DEF threshold, day, w, mine

\* A receipt more: a day has at most one question more, and only if it is one of that day.
LEMMA AskedGrows ==
  ASSUME IsFiniteSet(receipts), NEW r, receipts' = receipts \cup {r}, NEW d
  PROVE  /\ Asked(d)' <= Asked(d) + 1
         /\ r.day # d \/ r.decision # "ASK" => Asked(d)' = Asked(d)
<1> DEFINE asked == {x \in receipts : x.day = d /\ x.decision = "ASK"}
<1>1. IsFiniteSet(asked) /\ Cardinality(asked) \in Nat
  BY FS_Subset, FS_CardinalityType
<1>2. CASE r.day = d /\ r.decision = "ASK"
  <2>1. Asked(d)' = Cardinality(asked \cup {r})
    <3>1. {x \in receipts' : x.day = d /\ x.decision = "ASK"} = asked \cup {r}
      BY <1>2
    <3> QED
      BY <3>1 DEF Asked
  <2> HIDE DEF asked
  <2>2. Cardinality(asked \cup {r}) <= Cardinality(asked) + 1
    BY <1>1, FS_AddElement
  <2> QED
    BY <1>2, <2>1, <2>2 DEF Asked, asked
<1>3. CASE ~(r.day = d /\ r.decision = "ASK")
  <2>1. {x \in receipts' : x.day = d /\ x.decision = "ASK"} = asked
    BY <1>3
  <2>2. Asked(d)' = Cardinality(asked) /\ Asked(d) = Cardinality(asked)
    BY <2>1 DEF Asked
  <2> HIDE DEF asked
  <2> QED
    BY <1>1, <2>2
<1> QED
  BY <1>2, <1>3

LEMMA AdmitKeeps == ASSUME InitiativeInv, NEW p \in Workers, Admit(p) PROVE InitiativeInv'
<1> DEFINE mine == worker[p]
           w == Min(mine.todo)
           r == Receipt(p, w)
           t == [mine EXCEPT !.at = "weighing", !.todo = @ \ {w}, !.decision = Resting.decision]
<1>1. mine \in Turns /\ mine.at = "weighed" /\ mine.at \in Locking /\ Judged(mine)
  BY DEF InitiativeInv, InitiativeTypeOK, JudgedUnderLock, Admit, Locking
<1>2. t \in Turns /\ t.at = "weighing" /\ t.todo \subseteq mine.todo /\ t.seen = mine.seen
  <2>1. Resting.decision \in Decisions /\ "weighing" \in TurnPlaces
    BY DEF Resting, Decisions, TurnPlaces, Locking
  <2> HIDE DEF Resting
  <2> QED
    BY <1>1, <2>1 DEF Turns
<1>3. Put(p, t) /\ receipts' = IF Permitted(p, w) THEN receipts \cup {r} ELSE receipts
  BY DEF Admit
<1>4. /\ r \in Receipts /\ r.watch = w /\ r.state = mine.seen[w] /\ r.threshold = Threshold(w, mine.seen[w], mine.now)
      /\ r.day = Today(mine.now) /\ r.decision = mine.decision
  BY <1>1, ReceiptOfWeighed
<1>5. /\ ~Existing(w, mine.seen[w], Threshold(w, mine.seen[w], mine.now), Today(mine.now))
      /\ mine.decision = "ASK" => Asked(Today(mine.now)) < ScopeCap
  BY <1>1 DEF Judged
<1> HIDE DEF t, r
<1>6. Judged(t)
  BY <1>1, <1>2 DEF Judged
<1>7. CASE ~Permitted(p, w)
  <2>1. receipts' = receipts
    BY <1>3, <1>7
  <2> QED
    BY <1>1, <1>2, <1>3, <1>6, <2>1, QuietTurn DEF Admit
<1>8. CASE Permitted(p, w)
  <2>1. receipts' = receipts \cup {r}
    BY <1>3, <1>8
  <2>2. worker \in [Workers -> Turns] /\ worker' = [worker EXCEPT ![p] = t]
    BY <1>3 DEF InitiativeInv, InitiativeTypeOK, Put
  <2>3. InitiativeTypeOK'
    BY <1>2, <1>4, <2>1, <2>2 DEF InitiativeInv, InitiativeTypeOK, Admit
  <2>4. MovesCounted'
    BY DEF InitiativeInv, MovesCounted, Admit
  <2>5. LockExclusive'
    BY <1>1, <2>2 DEF InitiativeInv, LockExclusive
  <2>6. JudgedUnderLock'
    <3>1. ASSUME NEW q \in Workers
          PROVE  Judged(worker[q])'
      <4>1. CASE q = p
        BY <1>2, <1>6, <2>2, <4>1 DEF Judged
      <4>2. CASE q # p
        <5>1. worker'[q] = worker[q] /\ worker[q].at \notin Locking
          BY <1>1, <2>2, <4>2 DEF InitiativeInv, LockExclusive
        <5> QED
          BY <5>1 DEF Judged, Locking
      <4> QED
        BY <4>1, <4>2
    <3> QED
      BY <3>1 DEF JudgedUnderLock
  <2>7. AskedOnce'
    <3>1. ASSUME NEW s \in receipts, s.decision = "ASK",
                 s.watch = r.watch, s.state = r.state, s.threshold = r.threshold
          PROVE  FALSE
      BY <1>4, <1>5, <3>1 DEF Existing
    <3> QED
      BY <2>1, <3>1 DEF InitiativeInv, AskedOnce
  <2>8. WithinScope'
    <3> SUFFICES ASSUME NEW d \in DOMAIN cards PROVE Asked(d)' <= ScopeCap
      BY DEF WithinScope, Admit
    <3>1. Asked(d) \in Nat /\ Asked(d)' \in Nat /\ ScopeCap \in Nat
      <4>1. IsFiniteSet(receipts) /\ IsFiniteSet(receipts')
        BY <2>1, FS_AddElement DEF InitiativeInv
      <4>2. Asked(d) \in Nat
        BY <4>1, AskedIsNat
      <4>3. Asked(d)' \in Nat
        <5>1. IsFiniteSet({x \in receipts' : x.day = d /\ x.decision = "ASK"})
          BY <4>1, FS_Subset
        <5> QED
          BY <5>1, FS_CardinalityType DEF Asked
      <4> QED
        BY <4>2, <4>3, Numbers
    <3>2. Asked(d) <= ScopeCap
      BY DEF InitiativeInv, WithinScope
    <3>3. /\ Asked(d)' <= Asked(d) + 1
          /\ r.day # d \/ r.decision # "ASK" => Asked(d)' = Asked(d)
      BY <2>1, AskedGrows DEF InitiativeInv
    <3>4. r.day = d /\ r.decision = "ASK" => Asked(d) < ScopeCap
      BY <1>4, <1>5
    <3> HIDE DEF Asked
    <3> QED
      BY <3>1, <3>2, <3>3, <3>4
  <2>9. IsFiniteSet(receipts')
    BY <2>1, FS_AddElement DEF InitiativeInv
  <2> QED
    BY <2>3, <2>4, <2>5, <2>6, <2>7, <2>8, <2>9 DEF InitiativeInv
<1> QED
  BY <1>7, <1>8

LEMMA FinishKeeps == ASSUME InitiativeInv, NEW p \in Workers, Finish(p) PROVE InitiativeInv'
<1> DEFINE mine == worker[p]
           ahead == UNION {Pressing(w, mine.seen[w], mine.now) :
                             w \in {v \in Watches : Situation(v, mine.seen[v], mine.now)}}
           t == [Resting EXCEPT !.at = "handled", !.key = mine.key]
           last == Horizon + 2 * Day
<1>1. mine \in Turns /\ settings \in Settings /\ (settings.enabled <=> settings.due # Unset)
  BY DEF InitiativeInv, InitiativeTypeOK
<1>2. t \in Turns /\ t.at = "handled" /\ t.at \notin Locking
  <2>1. mine.key \in Keys \cup {Unset} /\ "handled" \in TurnPlaces /\ "handled" \notin Locking
    BY <1>1 DEF Turns, TurnPlaces, Locking
  <2> HIDE DEF mine
  <2> QED
    BY <2>1, RestingAt
<1>3. Put(p, t) /\ settings' = IF ahead = {} THEN settings ELSE [settings EXCEPT !.due = Sooner(p, Min(ahead))]
  BY DEF Finish
<1>4. last \in Nat
  BY Numbers
<1>5. ahead \subseteq 0..last
  <2>1. ASSUME NEW w \in Watches, Situation(w, mine.seen[w], mine.now), NEW x \in Pressing(w, mine.seen[w], mine.now)
        PROVE  x \in 0..last
    <3>1. mine.seen[w] \in States
      BY <1>1, <2>1 DEF Situation, Turns
    <3>2. Deadline[w][mine.seen[w]] \in Nat
      BY <3>1, TimeAssumption
    <3>3. mine.now \in Nat /\ mine.now <= Horizon
      BY <1>1, Numbers DEF Turns, Ticks
    <3> HIDE DEF mine
    <3> QED
      BY <2>1, <3>2, <3>3, Numbers DEF Situation, Pressing
  <2> QED
    BY <2>1
<1>6. settings' \in Settings /\ (settings'.enabled <=> settings'.due # Unset) /\ settings'.revision = settings.revision
  <2>1. CASE ahead = {}
    BY <1>1, <1>3, <2>1
  <2>2. CASE ahead # {}
    <3>1. Min(ahead) \in 0..last
      <4> HIDE DEF ahead, last
      <4>1. Min(ahead) \in ahead
        BY <1>4, <1>5, <2>2, LeastWithin
      <4> QED
        BY <1>5, <4>1
    <3> DEFINE due == Sooner(p, Min(ahead))
    <3>2. settings' = [settings EXCEPT !.due = due]
      BY <1>3, <2>2
    <3>3. due \in Times /\ (settings.enabled <=> due # Unset)
      <4>1. settings.due \in 0..last \cup {Unset}
        BY <1>1 DEF Settings, Times
      <4>2. CASE settings.enabled /\ settings.revision = mine.key.revision
        <5>1. settings.due \in 0..last
          BY <1>1, <4>1, <4>2
        <5>2. due = Min({settings.due, Min(ahead)})
          BY <4>2 DEF Sooner
        <5> HIDE DEF ahead, last
        <5>3. {settings.due, Min(ahead)} \subseteq 0..last
          BY <3>1, <5>1
        <5>4. Min({settings.due, Min(ahead)}) \in {settings.due, Min(ahead)}
          BY <1>4, <5>3, LeastWithin
        <5>5. due \in 0..last
          <6> HIDE DEF due
          <6> QED
            BY <5>2, <5>3, <5>4
        <5>6. due # Unset
          <6> HIDE DEF due
          <6> QED
            BY <5>5, Numbers
        <5> QED
          BY <4>2, <5>5, <5>6 DEF Times, last
      <4>3. CASE ~(settings.enabled /\ settings.revision = mine.key.revision)
        <5>1. due = settings.due
          BY <4>3 DEF Sooner
        <5> HIDE DEF due
        <5> QED
          BY <1>1, <5>1 DEF Settings
      <4> QED
        BY <4>2, <4>3
    <3> HIDE DEF due
    <3> QED
      BY <1>1, <3>2, <3>3 DEF Settings
  <2> QED
    BY <2>1, <2>2
<1>7. DOMAIN jobs' \subseteq Keys /\ jobs' \in [DOMAIN jobs' -> Jobs]
  BY DEF InitiativeInv, InitiativeTypeOK, Finish
<1>8. moves' \in moves..MaxMoves
  BY MoveCounts DEF Finish
<1> HIDE DEF t
<1>9. Judged(t)
  BY <1>2, UnjudgedHolds DEF Locking
<1> QED
  BY <1>2, <1>3, <1>6, <1>7, <1>8, <1>9, WorkerStep DEF Finish

\* A worker that comes to rest: what it leaves of its task.
LEMMA ComesToRest ==
  ASSUME InitiativeInv, NEW p \in Workers, Put(p, Resting), Move \/ moves' = moves,
         DOMAIN jobs' \subseteq Keys, jobs' \in [DOMAIN jobs' -> Jobs],
         UNCHANGED <<clock, memory, unmarked, marker, settings, watch, receipts, cards, patch, inbox>>
  PROVE  InitiativeInv'
<1>1. Resting \in Turns /\ Resting.at = "idle" /\ Resting.at \notin Locking
  BY RestingIsTurn DEF Resting, Locking
<1>2. Judged(Resting)
  BY <1>1, UnjudgedHolds
<1>3. moves' \in moves..MaxMoves
  BY MoveCounts
<1>4. settings' \in Settings /\ (settings'.enabled <=> settings'.due # Unset) /\ settings'.revision = settings.revision
  BY DEF InitiativeInv, InitiativeTypeOK
<1> QED
  BY <1>1, <1>2, <1>3, <1>4, WorkerStep

\* A task that ends, or opens again.
LEMMA TaskSettles ==
  ASSUME InitiativeInv, NEW key \in DOMAIN jobs, NEW phase \in {"open", "done", "dead"},
         jobs' = [jobs EXCEPT ![key].phase = phase, ![key].by = Unset]
  PROVE  DOMAIN jobs' \subseteq Keys /\ jobs' \in [DOMAIN jobs' -> Jobs]
<1> DEFINE task == [jobs[key] EXCEPT !.phase = phase, !.by = Unset]
<1>1. jobs[key] \in Jobs
  BY DEF InitiativeInv, InitiativeTypeOK
<1>2. task \in Jobs
  BY <1>1 DEF Jobs
<1>3. jobs' = [jobs EXCEPT ![key] = task]
  OBVIOUS
<1> HIDE DEF task
<1> QED
  BY <1>2, <1>3, TaskMoves

LEMMA ReportKeeps == ASSUME InitiativeInv, NEW p \in Workers, Report(p) PROVE InitiativeInv'
<1> DEFINE key == worker[p].key
<1>1. DOMAIN jobs' \subseteq Keys /\ jobs' \in [DOMAIN jobs' -> Jobs]
  <2>1. CASE key \in DOMAIN jobs /\ jobs[key].by = p
    <3>1. jobs' = [jobs EXCEPT ![key].phase = "done", ![key].by = Unset]
      BY <2>1 DEF Report
    <3> HIDE DEF key
    <3> QED
      BY <2>1, <3>1, TaskSettles
  <2>2. CASE key \notin DOMAIN jobs \/ jobs[key].by # p
    <3>1. jobs' = jobs
      <4>1. CASE jobs[key].by # p
        BY <4>1 DEF Report
      <4>2. CASE key \notin DOMAIN jobs
        <5>1. \/ jobs' = jobs
              \/ jobs' = [jobs EXCEPT ![key].phase = "done", ![key].by = Unset]
          BY DEF Report
        <5>2. jobs \in [DOMAIN jobs -> Jobs]
          BY DEF InitiativeInv, InitiativeTypeOK
        <5> HIDE DEF key
        <5> QED
          BY <4>2, <5>1, <5>2
      <4> QED
        BY <2>2, <4>1, <4>2
    <3> QED
      BY <3>1 DEF InitiativeInv, InitiativeTypeOK
  <2> QED
    BY <2>1, <2>2
<1> QED
  BY <1>1, ComesToRest DEF Report

LEMMA LoseKeeps == ASSUME InitiativeInv, NEW p \in Workers, Lose(p) PROVE InitiativeInv'
<1> DEFINE key == worker[p].key
           phase == IF jobs[key].used = Attempts THEN "dead" ELSE "open"
<1>1. DOMAIN jobs' \subseteq Keys /\ jobs' \in [DOMAIN jobs' -> Jobs]
  <2>1. CASE key \in DOMAIN jobs /\ jobs[key].by = p
    <3>1. jobs' = [jobs EXCEPT ![key].phase = phase, ![key].by = Unset]
      BY <2>1 DEF Lose
    <3>2. phase \in {"open", "done", "dead"}
      OBVIOUS
    <3> HIDE DEF key, phase
    <3> QED
      BY <2>1, <3>1, <3>2, TaskSettles
  <2>2. CASE key \notin DOMAIN jobs \/ jobs[key].by # p
    <3>1. jobs' = jobs
      <4>1. CASE jobs[key].by # p
        BY <4>1 DEF Lose
      <4>2. CASE key \notin DOMAIN jobs
        <5>1. \/ jobs' = jobs
              \/ jobs' = [jobs EXCEPT ![key].phase = phase, ![key].by = Unset]
          BY DEF Lose
        <5>2. jobs \in [DOMAIN jobs -> Jobs]
          BY DEF InitiativeInv, InitiativeTypeOK
        <5> HIDE DEF key, phase
        <5> QED
          BY <4>2, <5>1, <5>2
      <4> QED
        BY <2>2, <4>1, <4>2
    <3> QED
      BY <3>1 DEF InitiativeInv, InitiativeTypeOK
  <2> QED
    BY <2>1, <2>2
<1> QED
  BY <1>1, ComesToRest DEF Lose

-----------------------------------------------------------------------------
(* The owner, memory, the inbox and time.                                  *)

\* A step that leaves the workers and their receipts alone.
LEMMA WorkersStill ==
  ASSUME InitiativeInv, UNCHANGED <<worker, receipts>>, InitiativeTypeOK', MovesCounted'
  PROVE  InitiativeInv'
<1>1. LockExclusive' /\ JudgedUnderLock'
  BY DEF InitiativeInv, LockExclusive, JudgedUnderLock, Judged, Existing, Asked
<1> QED
  BY <1>1, NoReceipt

\* The numbers that MovesCounted adds up.
LEMMA Counted ==
  ASSUME InitiativeInv
  PROVE  /\ settings.revision \in Nat /\ marker \in Nat /\ moves \in Nat /\ settings.revision >= 1
         /\ moves <= MaxMoves /\ MaxMoves \in Nat
  BY Numbers DEF InitiativeInv, InitiativeTypeOK, Settings

LEMMA TickKeeps == ASSUME InitiativeInv, Tick PROVE InitiativeInv'
<1>1. clock' \in Ticks
  BY Numbers DEF InitiativeInv, InitiativeTypeOK, Tick, Ticks
<1>2. InitiativeTypeOK'
  BY <1>1 DEF InitiativeInv, InitiativeTypeOK, Tick
<1>3. MovesCounted'
  BY DEF InitiativeInv, MovesCounted, Tick
<1> QED
  BY <1>2, <1>3, WorkersStill DEF Tick

LEMMA GovernKeeps ==
  ASSUME InitiativeInv, NEW w \in Watches, NEW state \in States \cup {Gone}, Govern(w, state)
  PROVE  InitiativeInv'
<1>1. moves' = moves + 1 /\ moves' \in 0..MaxMoves
  BY Counted DEF Govern, Move
<1>2. InitiativeTypeOK'
  BY <1>1 DEF InitiativeInv, InitiativeTypeOK, Govern
<1>3. MovesCounted'
  BY <1>1, Counted DEF InitiativeInv, MovesCounted, Govern
<1> QED
  BY <1>2, <1>3, WorkersStill DEF Govern

LEMMA CompleteKeeps == ASSUME InitiativeInv, Complete PROVE InitiativeInv'
<1>1. MovesCounted'
  BY Counted DEF InitiativeInv, MovesCounted, Complete
<1>2. marker' \in 0..MaxMoves
  BY <1>1, Counted DEF MovesCounted, Complete
<1>3. InitiativeTypeOK'
  BY <1>2 DEF InitiativeInv, InitiativeTypeOK, Complete
<1> QED
  BY <1>1, <1>3, WorkersStill DEF Complete

LEMMA BeginPatchKeeps == ASSUME InitiativeInv, BeginPatch PROVE InitiativeInv'
<1>1. moves' = moves + 1 /\ moves' \in 0..MaxMoves
  BY Counted DEF BeginPatch, Move
<1>2. patch' \in [at : {"idle", "read"}, marker : 0..MaxMoves, now : Ticks] /\ patch'.at = "read" /\ patch.at = "idle"
  BY DEF InitiativeInv, InitiativeTypeOK, BeginPatch
<1>3. InitiativeTypeOK'
  BY <1>1, <1>2 DEF InitiativeInv, InitiativeTypeOK, BeginPatch
<1>4. MovesCounted'
  BY <1>1, <1>2, Counted DEF InitiativeInv, MovesCounted, BeginPatch
<1> QED
  BY <1>3, <1>4, WorkersStill DEF BeginPatch

LEMMA WritePatchKeeps == ASSUME InitiativeInv, NEW enabled \in BOOLEAN, WritePatch(enabled) PROVE InitiativeInv'
<1> DEFINE due == IF enabled THEN NextRun(patch.now) ELSE Unset
<1>1. patch \in [at : {"idle", "read"}, marker : 0..MaxMoves, now : Ticks] /\ patch.at = "read"
  BY DEF InitiativeInv, InitiativeTypeOK, WritePatch
<1>2. due \in Times /\ (enabled <=> due # Unset)
  <2>1. NextRun(patch.now) \in Times /\ NextRun(patch.now) # Unset
    BY <1>1, NextRunIsTime
  <2> QED
    BY <2>1 DEF Times
<1>3. patch' = [at |-> "idle", marker |-> 0, now |-> 0]
      /\ settings' = [enabled |-> enabled, revision |-> settings.revision + 1, due |-> due, marker |-> patch.marker]
  BY DEF WritePatch
<1> HIDE DEF due
<1>4. patch' \in [at : {"idle", "read"}, marker : 0..MaxMoves, now : Ticks] /\ patch'.at = "idle"
  BY <1>3, Numbers DEF Ticks
<1>5. settings'.revision = settings.revision + 1 /\ settings'.enabled = enabled /\ settings'.due = due
      /\ settings'.marker = patch.marker
  BY <1>3
<1>6. MovesCounted'
  BY <1>1, <1>4, <1>5, Counted DEF InitiativeInv, MovesCounted, WritePatch
<1>7. settings.revision + 1 \in 1..(MaxMoves + 1)
  BY <1>1, Counted DEF InitiativeInv, MovesCounted
<1>8. settings' \in Settings /\ (settings'.enabled <=> settings'.due # Unset)
  BY <1>1, <1>2, <1>3, <1>5, <1>7 DEF Settings
<1>9. InitiativeTypeOK'
  BY <1>4, <1>8 DEF InitiativeInv, InitiativeTypeOK, WritePatch
<1> QED
  BY <1>6, <1>9, WorkersStill DEF WritePatch

LEMMA PatchWatchKeeps ==
  ASSUME InitiativeInv, NEW w \in Watches, NEW enabled \in BOOLEAN, NEW until \in {0, Quiet},
         PatchWatch(w, enabled, until)
  PROVE  InitiativeInv'
<1> DEFINE patched == [enabled |-> enabled, until |-> until]
<1>1. moves' = moves + 1 /\ moves' \in 0..MaxMoves
  BY Counted DEF PatchWatch, Move
<1>2. patched \in [enabled : BOOLEAN, until : {0, Quiet}]
  OBVIOUS
<1>3. watch' = [watch EXCEPT ![w] = patched]
  BY DEF PatchWatch
<1> HIDE DEF patched
<1>4. InitiativeTypeOK'
  BY <1>1, <1>2, <1>3 DEF InitiativeInv, InitiativeTypeOK, PatchWatch
<1>5. MovesCounted'
  BY <1>1, Counted DEF InitiativeInv, MovesCounted, PatchWatch
<1> QED
  BY <1>4, <1>5, WorkersStill DEF PatchWatch

LEMMA CountInboxKeeps == ASSUME InitiativeInv, CountInbox PROVE InitiativeInv'
<1> DEFINE asks == IF Asked(Today(clock)) + cards[Today(clock)] < Cap THEN 1 ELSE 0
           day == Today(clock)
<1>1. moves' = moves + 1 /\ moves' \in 0..MaxMoves
  BY Counted DEF CountInbox, Move
<1>2. asks \in {0, 1} /\ day \in Nat
  BY TodayIsNat DEF InitiativeInv, InitiativeTypeOK
<1>3. inbox' = [at |-> "counted", day |-> day, asks |-> asks]
  BY DEF CountInbox
<1> HIDE DEF asks, day
<1>4. InitiativeTypeOK'
  BY <1>1, <1>2, <1>3 DEF InitiativeInv, InitiativeTypeOK, CountInbox
<1>5. MovesCounted'
  BY <1>1, Counted DEF InitiativeInv, MovesCounted, CountInbox
<1> QED
  BY <1>4, <1>5, WorkersStill DEF CountInbox

LEMMA CommitInboxKeeps == ASSUME InitiativeInv, CommitInbox PROVE InitiativeInv'
<1>1. cards' \in [Days -> Nat]
  <2>1. cards \in [Days -> Nat] /\ inbox.asks \in Nat
    BY DEF InitiativeInv, InitiativeTypeOK
  <2>2. cards' = [cards EXCEPT ![inbox.day] = cards[inbox.day] + inbox.asks]
    BY DEF CommitInbox
  <2>3. \A d \in Days : cards'[d] \in Nat
    <3>1. ASSUME NEW d \in Days PROVE cards'[d] = IF d = inbox.day THEN cards[d] + inbox.asks ELSE cards[d]
      BY <2>1, <2>2
    <3> QED
      BY <2>1, <3>1
  <2> QED
    BY <2>1, <2>2, <2>3
<1>2. InitiativeTypeOK'
  BY <1>1, Numbers DEF InitiativeInv, InitiativeTypeOK, CommitInbox, Ticks
<1>3. MovesCounted'
  BY DEF InitiativeInv, MovesCounted, CommitInbox
<1> QED
  BY <1>2, <1>3, WorkersStill DEF CommitInbox

-----------------------------------------------------------------------------
(* The theorems.                                                           *)

LEMMA InitHolds == ASSUME InitiativeInit PROVE InitiativeInv
<1>1. 0 \in Ticks /\ 0 \in 0..MaxMoves /\ 0 \in {0, Quiet}
  BY Numbers DEF Ticks
<1>2. settings \in Settings /\ (settings.enabled <=> settings.due # Unset) /\ settings.revision = 1
  <2>1. NextRun(0) \in Times /\ NextRun(0) # Unset
    BY <1>1, NextRunIsTime
  <2> QED
    BY <2>1, Numbers DEF InitiativeInit, Settings
<1>3. DOMAIN jobs = {} /\ jobs \in [DOMAIN jobs -> Jobs]
  BY DEF InitiativeInit
<1>4. worker \in [Workers -> Turns] /\ \A p \in Workers : worker[p].at = "idle"
  <2>1. Resting \in Turns /\ Resting.at = "idle"
    BY RestingIsTurn DEF Resting
  <2> HIDE DEF Resting
  <2> QED
    BY <2>1 DEF InitiativeInit
<1>5. cards \in [Days -> Nat]
  BY DEF InitiativeInit, Days
<1>6. InitiativeTypeOK
  BY <1>1, <1>2, <1>3, <1>4, <1>5 DEF InitiativeInit, InitiativeTypeOK
<1>7. MovesCounted
  BY <1>2 DEF InitiativeInit, MovesCounted
<1>8. LockExclusive /\ JudgedUnderLock
  BY <1>4 DEF LockExclusive, JudgedUnderLock, Judged, Locking
<1>9. receipts = {} /\ IsFiniteSet(receipts) /\ AskedOnce
  BY FS_EmptySet DEF InitiativeInit, AskedOnce
<1>10. WithinScope
  <2>1. \A d : Asked(d) = 0
    <3>1. \A d : {r \in receipts : r.day = d /\ r.decision = "ASK"} = {}
      BY <1>9
    <3> QED
      BY <3>1, FS_EmptySet DEF Asked
  <2> QED
    BY <2>1, Numbers DEF WithinScope
<1> QED
  BY <1>6, <1>7, <1>8, <1>9, <1>10 DEF InitiativeInv

LEMMA NextHolds == ASSUME InitiativeInv, [InitiativeNext]_initiativeVars PROVE InitiativeInv'
<1>1. CASE UNCHANGED initiativeVars
  <2>1. InitiativeTypeOK' /\ MovesCounted' /\ UNCHANGED <<worker, receipts>>
    BY <1>1 DEF initiativeVars, InitiativeInv, InitiativeTypeOK, MovesCounted
  <2> QED
    BY <2>1, WorkersStill
<1>2. ASSUME NEW p \in Workers, Work(p) \/ Lose(p)
      PROVE  InitiativeInv'
  BY <1>2, LookKeeps, EnqueueKeeps, PassKeeps, ClaimKeeps, LockKeeps, ReadKeeps, PassOverKeeps, WeighKeeps,
     AdmitKeeps, FinishKeeps, ReportKeeps, LoseKeeps DEF Work
<1>3. CASE Owner
  BY <1>3, BeginPatchKeeps, WritePatchKeeps, PatchWatchKeeps, GovernKeeps DEF Owner
<1> QED
  BY <1>1, <1>2, <1>3, CompleteKeeps, CountInboxKeeps, CommitInboxKeeps, TickKeeps DEF InitiativeNext

\* Every reachable state satisfies the inductive invariant: one evaluation at a time
\* stands between its lock and its receipts, and what it has judged is still so.
THEOREM InitiativeInvariant == InitiativeSpec => []InitiativeInv
  BY InitHolds, NextHolds, PTL DEF InitiativeSpec

\* Every variable has its type in every reachable state.
THEOREM InitiativeTypes == InitiativeSpec => []InitiativeTypeOK
<1>1. InitiativeInv => InitiativeTypeOK
  BY DEF InitiativeInv
<1> QED
  BY <1>1, InitiativeInvariant, PTL

\* The owner is asked about a situation once, on whatever day, however often its
\* evaluation is repeated, overtaken or lost, and by however many workers.
THEOREM SituationAskedOnce == InitiativeSpec => []AskedOnce
<1>1. InitiativeInv => AskedOnce
  BY DEF InitiativeInv
<1> QED
  BY <1>1, InitiativeInvariant, PTL

\* On no day does the initiative ask more than its scope allows, whatever the inbox asks
\* beside it.
THEOREM ScopeKept == InitiativeSpec => []WithinScope
<1>1. InitiativeInv => WithinScope
  BY DEF InitiativeInv
<1> QED
  BY <1>1, InitiativeInvariant, PTL

-----------------------------------------------------------------------------
(* The budget that the initiative shares with the inbox, which takes no     *)
(* lock: kept while neither counts before what the other has counted for is *)
(* written.                                                                 *)

\* There is room for what was counted: for a question weighed, and for a card.
RoomFor(asked, shown, day) ==
  Cardinality({r \in asked : r.day = day /\ r.decision = "ASK"}) + shown[day] < Cap

NotTogether == ~(inbox.at = "counted" /\ \E p \in Workers : worker[p].at = "weighed")

BudgetHeld ==
  /\ WithinBudget
  /\ \A p \in Workers : worker[p].at = "weighed" /\ worker[p].decision = "ASK" => RoomFor(receipts, cards, Today(worker[p].now))
  /\ inbox.at = "counted" /\ inbox.asks = 1 => RoomFor(receipts, cards, inbox.day)
  /\ NotTogether

\* Of a worker's steps, only one leaves it with a question weighed.
LEMMA OnlyWeighingWeighs ==
  ASSUME InitiativeInv, NEW p \in Workers, Work(p) \/ Lose(p), ~Weigh(p)
  PROVE  /\ worker'[p].at # "weighed"
         /\ \A q \in Workers \ {p} : worker'[q] = worker[q]
<1>1. worker \in [Workers -> Turns] /\ worker[p] \in Turns
  BY DEF InitiativeInv, InitiativeTypeOK
<1>2. ASSUME NEW t, Put(p, t), t.at # "weighed"
      PROVE  /\ worker'[p].at # "weighed"
             /\ \A q \in Workers \ {p} : worker'[q] = worker[q]
  BY <1>1, <1>2 DEF Put
<1>3. Resting.at = "idle"
  BY DEF Resting
<1>4. \A place \in TurnPlaces, key \in Keys \cup {Unset} :
         /\ [Resting EXCEPT !.at = place, !.key = key].at = place
         /\ [Resting EXCEPT !.at = place].at = place
  BY RestingAt
<1>5. {"looked", "turn", "claimed", "handled"} \subseteq TurnPlaces /\ worker[p].key \in Keys \cup {Unset}
  BY <1>1 DEF TurnPlaces, Turns
<1>6. CASE Look(p)
  <2>1. [Resting EXCEPT !.at = "looked", !.revision = settings.revision, !.marker = marker, !.now = clock].at = "looked"
    BY DEF Resting
  <2>2. [Resting EXCEPT !.at = "turn"].at = "turn"
    BY <1>4, <1>5
  <2> HIDE DEF Resting
  <2> QED
    BY <1>2, <1>6, <2>1, <2>2 DEF Look
<1> HIDE DEF Resting
<1>7. CASE Enqueue(p) \/ Pass(p) \/ Report(p) \/ Lose(p)
  BY <1>2, <1>3, <1>4, <1>5, <1>7 DEF Enqueue, Pass, Report, Lose
<1>8. ASSUME NEW key \in DOMAIN jobs, Claim(p, key)
      PROVE  /\ worker'[p].at # "weighed"
             /\ \A q \in Workers \ {p} : worker'[q] = worker[q]
  <2>1. key \in Keys \cup {Unset}
    BY DEF InitiativeInv, InitiativeTypeOK
  <2> QED
    BY <1>2, <1>4, <1>5, <1>8, <2>1 DEF Claim
<1>9. CASE Finish(p)
  BY <1>2, <1>4, <1>5, <1>9 DEF Finish
<1>10. CASE Lock(p)
  <2>1. [worker[p] EXCEPT !.at = "locked"].at = "locked"
    BY <1>1 DEF Turns
  <2> QED
    BY <1>2, <1>10, <2>1 DEF Lock
<1>11. CASE Read(p)
  <2> DEFINE seen == [w \in Watches |-> IF Awake(w, clock) THEN memory[w] ELSE Gone]
             todo == {w \in Watches : Situation(w, seen[w], clock)}
             looking == [worker[p] EXCEPT !.at = "weighing", !.now = clock, !.seen = seen, !.todo = todo]
             late == [worker[p] EXCEPT !.at = "handled"]
  <2>1. Put(p, looking) \/ Put(p, late)
    BY <1>11 DEF Read
  <2> HIDE DEF seen, todo
  <2>2. looking.at = "weighing" /\ late.at = "handled"
    BY <1>1 DEF Turns
  <2> HIDE DEF looking, late
  <2> QED
    BY <1>2, <2>1, <2>2
<1>12. CASE PassOver(p)
  <2> DEFINE t == [worker[p] EXCEPT !.todo = @ \ {Min(worker[p].todo)}]
  <2>1. Put(p, t) /\ worker[p].at = "weighing"
    BY <1>12 DEF PassOver
  <2>2. t.at = "weighing"
    BY <1>1, <2>1 DEF Turns
  <2> HIDE DEF t
  <2> QED
    BY <1>2, <2>1, <2>2
<1>13. CASE Admit(p)
  <2> DEFINE t == [worker[p] EXCEPT !.at = "weighing", !.todo = @ \ {Min(worker[p].todo)}, !.decision = Resting.decision]
  <2>1. Put(p, t)
    BY <1>13 DEF Admit
  <2>2. t.at = "weighing"
    BY <1>1 DEF Turns
  <2> HIDE DEF t
  <2> QED
    BY <1>2, <2>1, <2>2
<1> QED
  BY <1>6, <1>7, <1>8, <1>9, <1>10, <1>11, <1>12, <1>13 DEF Work

\* The numbers of the budget.
LEMMA BudgetNumbers ==
  ASSUME InitiativeInv
  PROVE  /\ Cap \in Nat /\ \A d : Asked(d) \in Nat
         /\ cards \in [Days -> Nat]
         /\ \A p \in Workers : Today(worker[p].now) \in Days
<1>1. Cap \in {Cap, ScopeCap, MaxMoves}
  OBVIOUS
<1>2. Cap \in Nat
  BY <1>1, BudgetAssumption
<1>3. \A d : Asked(d) \in Nat
  BY AskedIsNat DEF InitiativeInv
<1>4. \A p \in Workers : worker[p].now \in Ticks
  BY TurnFields DEF InitiativeInv, InitiativeTypeOK
<1> HIDE DEF Asked
<1> QED
  BY <1>2, <1>3, <1>4 DEF InitiativeInv, InitiativeTypeOK, Days

\* A step that writes neither receipt nor card.
LEMMA CountsStand ==
  ASSUME InitiativeInv, BudgetHeld, UNCHANGED <<receipts, cards>>, NotTogether',
         \A p \in Workers : worker'[p].at = "weighed" =>
           \/ worker'[p] = worker[p]
           \/ worker'[p].decision = "ASK" => RoomFor(receipts, cards, Today(worker'[p].now)),
         \/ inbox' = inbox
         \/ inbox'.at = "counted" /\ inbox'.asks = 1 => RoomFor(receipts, cards, inbox'.day)
  PROVE  BudgetHeld'
<1>1. WithinBudget'
  BY DEF BudgetHeld, WithinBudget, Asked
<1>2. ASSUME NEW p \in Workers, worker'[p].at = "weighed", worker'[p].decision = "ASK"
      PROVE  RoomFor(receipts', cards', Today(worker'[p].now))
  BY <1>2 DEF BudgetHeld
<1>3. inbox'.at = "counted" /\ inbox'.asks = 1 => RoomFor(receipts', cards', inbox'.day)
  BY DEF BudgetHeld
<1> QED
  BY <1>1, <1>2, <1>3 DEF BudgetHeld

\* A question weighed while the inbox has counted nothing is within the budget when
\* its receipt is written.
LEMMA BudgetAdmit ==
  ASSUME InitiativeInv, BudgetHeld, NotTogether', NEW p \in Workers, Admit(p)
  PROVE  BudgetHeld'
<1> DEFINE mine == worker[p]
           r == Receipt(p, Min(mine.todo))
           day == Today(mine.now)
<1>1. mine.at = "weighed" /\ mine.at \in Locking /\ inbox' = inbox /\ cards' = cards
  BY DEF Admit, Locking
<1>2. \A q \in Workers : worker'[q].at # "weighed"
  <2>1. \A q \in Workers \ {p} : worker[q].at # "weighed"
    BY <1>1 DEF InitiativeInv, LockExclusive, Locking
  <2>2. worker'[p].at # "weighed" /\ \A q \in Workers \ {p} : worker'[q] = worker[q]
    <3>1. ~Weigh(p)
      BY <1>1 DEF Weigh
    <3> QED
      BY <3>1, OnlyWeighingWeighs DEF Work
  <2> QED
    BY <2>1, <2>2
<1>3. inbox.at # "counted"
  BY <1>1 DEF BudgetHeld, NotTogether
<1>4. r.day = day /\ r.decision = mine.decision
  BY <1>1, ReceiptOfWeighed
<1>5. receipts' = receipts \/ receipts' = receipts \cup {r}
  BY DEF Admit
<1>6. mine.decision = "ASK" => Asked(day) + cards[day] < Cap
  BY <1>1 DEF BudgetHeld, RoomFor, Asked
<1>7. Cap \in Nat /\ (\A d : Asked(d) \in Nat) /\ cards \in [Days -> Nat]
  BY BudgetNumbers
<1> HIDE DEF r, day, mine
<1>8. WithinBudget'
  <2>1. CASE receipts' = receipts
    BY <1>1, <2>1 DEF BudgetHeld, WithinBudget, Asked
  <2>2. CASE receipts' = receipts \cup {r}
    <3> SUFFICES ASSUME NEW d \in DOMAIN cards PROVE Asked(d)' + cards[d] <= Cap
      BY <1>1 DEF WithinBudget
    <3>1. /\ Asked(d)' <= Asked(d) + 1
          /\ r.day # d \/ r.decision # "ASK" => Asked(d)' = Asked(d)
      BY <2>2, AskedGrows DEF InitiativeInv
    <3>2. Asked(d)' \in Nat
      <4>1. IsFiniteSet(receipts')
        BY <2>2, FS_AddElement DEF InitiativeInv
      <4>2. IsFiniteSet({x \in receipts' : x.day = d /\ x.decision = "ASK"})
        BY <4>1, FS_Subset
      <4> QED
        BY <4>2, FS_CardinalityType DEF Asked
    <3>3. Asked(d) + cards[d] <= Cap /\ Asked(d) \in Nat /\ cards[d] \in Nat
      BY <1>7 DEF BudgetHeld, WithinBudget
    <3>4. r.day = d /\ r.decision = "ASK" => Asked(d) + cards[d] < Cap
      BY <1>4, <1>6
    <3> HIDE DEF Asked
    <3> QED
      BY <1>7, <3>1, <3>2, <3>3, <3>4
  <2> QED
    BY <1>5, <2>1, <2>2
<1> QED
  BY <1>1, <1>2, <1>3, <1>8 DEF BudgetHeld

\* So is a card that the inbox has counted for while no question was weighed.
LEMMA BudgetCommitInbox ==
  ASSUME InitiativeInv, BudgetHeld, NotTogether', CommitInbox
  PROVE  BudgetHeld'
<1>1. /\ inbox.at = "counted" /\ inbox'.at = "idle" /\ receipts' = receipts /\ worker' = worker
      /\ cards' = [cards EXCEPT ![inbox.day] = cards[inbox.day] + inbox.asks]
  BY DEF CommitInbox
<1>2. \A p \in Workers : worker'[p].at # "weighed"
  BY <1>1 DEF BudgetHeld, NotTogether
<1>3. inbox.asks = 1 => Asked(inbox.day) + cards[inbox.day] < Cap
  BY <1>1 DEF BudgetHeld, RoomFor, Asked
<1>4. Cap \in Nat /\ (\A d : Asked(d) \in Nat) /\ cards \in [Days -> Nat] /\ inbox.asks \in {0, 1}
  BY BudgetNumbers DEF InitiativeInv, InitiativeTypeOK
<1>5. WithinBudget'
  <2> SUFFICES ASSUME NEW d \in Days PROVE Asked(d)' + cards'[d] <= Cap
    BY <1>1, <1>4 DEF WithinBudget
  <2>1. Asked(d)' = Asked(d)
    BY <1>1 DEF Asked
  <2>2. cards'[d] = IF d = inbox.day THEN cards[d] + inbox.asks ELSE cards[d]
    BY <1>1, <1>4
  <2>3. Asked(d) + cards[d] <= Cap /\ Asked(d) \in Nat /\ cards[d] \in Nat
    BY <1>4 DEF BudgetHeld, WithinBudget
  <2> HIDE DEF Asked
  <2> QED
    BY <1>3, <1>4, <2>1, <2>2, <2>3
<1> QED
  BY <1>1, <1>2, <1>5 DEF BudgetHeld

\* Every operation keeps the budget, while neither side counts beside the other.
LEMMA BudgetStep ==
  ASSUME InitiativeInv, BudgetHeld, NotTogether', InitiativeNext
  PROVE  BudgetHeld'
<1>1. ASSUME NEW p \in Workers, Weigh(p) PROVE BudgetHeld'
  <2> DEFINE decision == Interrupt(Today(worker[p].now))
             t == [worker[p] EXCEPT !.at = "weighed", !.decision = decision]
  <2>1. Put(p, t) /\ UNCHANGED <<receipts, cards, inbox>>
    BY <1>1 DEF Weigh
  <2>2. worker \in [Workers -> Turns] /\ worker[p] \in Turns
    BY DEF InitiativeInv, InitiativeTypeOK
  <2>3. t.decision = decision /\ t.now = worker[p].now
    BY <2>2 DEF Turns
  <2>4. decision = "ASK" => RoomFor(receipts, cards, Today(worker[p].now))
    <3>1. decision = "ASK" => ~(Asked(Today(worker[p].now)) + cards[Today(worker[p].now)] >= Cap)
      BY DEF Interrupt
    <3>2. Asked(Today(worker[p].now)) + cards[Today(worker[p].now)] \in Nat /\ Cap \in Nat
      <4> HIDE DEF Asked
      <4> QED
        BY BudgetNumbers
    <3>3. decision = "ASK" => Asked(Today(worker[p].now)) + cards[Today(worker[p].now)] < Cap
      BY <3>1, <3>2
    <3> QED
      BY <3>3 DEF RoomFor, Asked
  <2> HIDE DEF t, decision
  <2>5. worker'[p] = t /\ \A q \in Workers \ {p} : worker'[q] = worker[q]
    BY <2>1, <2>2 DEF Put
  <2>6. \A q \in Workers : worker'[q].at = "weighed" =>
           \/ worker'[q] = worker[q]
           \/ worker'[q].decision = "ASK" => RoomFor(receipts, cards, Today(worker'[q].now))
    BY <2>3, <2>4, <2>5
  <2> QED
    BY <2>1, <2>6, CountsStand
<1>2. ASSUME NEW p \in Workers, Work(p) \/ Lose(p), ~Weigh(p), ~Admit(p) PROVE BudgetHeld'
  <2>1. UNCHANGED <<receipts, cards, inbox>>
    BY <1>2 DEF Work, Look, Enqueue, Pass, Claim, Lock, Read, PassOver, Finish, Report, Lose
  <2>2. /\ worker'[p].at # "weighed"
        /\ \A q \in Workers \ {p} : worker'[q] = worker[q]
    BY <1>2, OnlyWeighingWeighs
  <2>3. \A q \in Workers : worker'[q].at = "weighed" => worker'[q] = worker[q]
    BY <2>2
  <2> QED
    BY <2>1, <2>3, CountsStand
<1>3. CASE Owner \/ Complete \/ Tick
  <2>1. UNCHANGED <<receipts, cards, inbox, worker>>
    BY <1>3 DEF Owner, BeginPatch, WritePatch, PatchWatch, Govern, Complete, Tick
  <2> QED
    BY <2>1, CountsStand
<1>4. CASE CountInbox
  <2> DEFINE day == Today(clock)
             asks == IF Asked(day) + cards[day] < Cap THEN 1 ELSE 0
  <2>1. UNCHANGED <<receipts, cards, worker>> /\ inbox' = [at |-> "counted", day |-> day, asks |-> asks]
    BY <1>4 DEF CountInbox
  <2>2. asks = 1 => RoomFor(receipts, cards, day)
    BY DEF RoomFor, Asked
  <2> HIDE DEF day, asks
  <2>3. inbox'.asks = 1 => RoomFor(receipts, cards, inbox'.day)
    BY <2>1, <2>2
  <2> QED
    BY <2>1, <2>3, CountsStand
<1> QED
  BY <1>1, <1>2, <1>3, <1>4, BudgetAdmit, BudgetCommitInbox DEF InitiativeNext

\* The instance's run of the initiative, and the other part of it, which leaves it alone.
BudgetSound == subject = "initiative" /\ alone => BudgetHeld

\* Nothing asked, nothing shown.
LEMMA BudgetInit == MCInit => InitiativeInv /\ BudgetSound
<1> SUFFICES ASSUME MCInit PROVE InitiativeInv /\ BudgetSound
  OBVIOUS
<1>1. InitiativeInit /\ InitiativeInv
  BY InitHolds DEF MCInit
<1>2. inbox.at # "counted" /\ receipts = {} /\ cards = [d \in Days |-> 0]
  BY <1>1 DEF InitiativeInit, Days
<1>3. \A p \in Workers : worker[p].at # "weighed"
  <2>1. Resting.at = "idle"
    BY DEF Resting
  <2> HIDE DEF Resting
  <2> QED
    BY <1>1, <2>1 DEF InitiativeInit
<1>4. WithinBudget
  <2>1. \A d : Asked(d) = 0
    <3>1. \A d : {r \in receipts : r.day = d /\ r.decision = "ASK"} = {}
      BY <1>2
    <3> QED
      BY <3>1, FS_EmptySet DEF Asked
  <2>2. Cap \in Nat
    BY <1>1, BudgetNumbers
  <2> HIDE DEF Asked
  <2> QED
    BY <1>2, <2>1, <2>2 DEF WithinBudget
<1> QED
  BY <1>1, <1>2, <1>3, <1>4 DEF BudgetSound, BudgetHeld, NotTogether

\* Every step of the instance keeps both.
LEMMA InitiativeStep ==
  InitiativeInv /\ BudgetSound /\ [MCNext]_<<vars, initiativeVars, alone, subject>> => InitiativeInv' /\ BudgetSound'
<1> SUFFICES ASSUME InitiativeInv, BudgetSound, [MCNext]_<<vars, initiativeVars, alone, subject>>
             PROVE  InitiativeInv' /\ BudgetSound'
  OBVIOUS
<1>1. CASE UNCHANGED initiativeVars /\ subject' = subject /\ (alone' = alone \/ subject # "initiative")
  <2>1. InitiativeInv'
    BY <1>1, NextHolds
  <2>2. UNCHANGED <<receipts, cards, inbox, worker>>
    BY <1>1 DEF initiativeVars
  <2>3. BudgetHeld => BudgetHeld'
    <3> SUFFICES ASSUME BudgetHeld PROVE BudgetHeld'
      OBVIOUS
    <3>1. NotTogether'
      BY <2>2 DEF BudgetHeld, NotTogether
    <3> QED
      BY <2>2, <3>1, CountsStand
  <2> QED
    BY <1>1, <2>1, <2>3 DEF BudgetSound
<1>2. CASE /\ subject = "initiative" /\ InitiativeNext /\ UNCHANGED subject
           /\ alone' = (alone /\ ~(inbox'.at = "counted" /\ \E p \in Workers : worker'[p].at = "weighed"))
  <2>1. InitiativeInv'
    BY <1>2, NextHolds
  <2>2. ASSUME alone' PROVE BudgetHeld'
    <3>1. BudgetHeld /\ NotTogether'
      BY <1>2, <2>2 DEF BudgetSound, NotTogether
    <3> QED
      BY <1>2, <3>1, BudgetStep
  <2> QED
    BY <2>1, <2>2 DEF BudgetSound
<1> QED
  BY <1>1, <1>2 DEF MCNext

\* While the inbox and the initiative do not count beside one another, no day has more
\* questions than the budget; the initiative's own share is kept whatever happens.
THEOREM BudgetKeptApart == MCSpec => []BudgetApart
<1>1. InitiativeInv /\ BudgetSound => BudgetApart
  BY DEF InitiativeInv, BudgetSound, BudgetHeld, BudgetApart
<1> QED
  BY <1>1, BudgetInit, InitiativeStep, PTL DEF MCSpec

-----------------------------------------------------------------------------
(* Both.                                                                   *)

\* Every variable of both models has its type in every reachable state of the instance.
THEOREM BackgroundTypes == MCSpec => []TypesOK
<1>1. IInv /\ InitiativeInv => TypesOK
  BY DEF IInv, InitiativeInv, TypesOK
<1> QED
  BY <1>1, AloneInit, ConnectorStep, BudgetInit, InitiativeStep, PTL DEF MCSpec
=============================================================================
