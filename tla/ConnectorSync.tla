---------------------------- MODULE ConnectorSync ----------------------------
(***************************************************************************)
(* One connected mailbox (packages/connectors): a sync reads provider      *)
(* pages from a stored cursor into evidence, while the owner changes the   *)
(* grants or disconnects.  Every operation is one READ COMMITTED           *)
(* transaction with a network call in the middle of it; a failed sync is   *)
(* recorded by a transaction of its own after its rollback.                *)
(*                                                                         *)
(* A session has at most one transaction open.  What it has written and    *)
(* not committed is in its record; a row it has updated is locked until    *)
(* it ends.  A page holds one message, and `cursor` is the number of the   *)
(* page last read, 0 for none.                                             *)
(***************************************************************************)
EXTENDS Integers

CONSTANTS Sessions,
          Pages,       \* pages of the mailbox
          MaxPages,    \* pages one sync may read
          None

ASSUME PagesAssumption == Pages \in Nat \ {0} /\ MaxPages \in Nat \ {0}

VARIABLES conn,      \* the connectors row
          grants,    \* capabilities granted and not revoked
          store,     \* evidence rows of each message, as each content hash
          passed,    \* history: messages a committed sync refused and moved past
          token,     \* the credential is good at the provider
          session

vars == <<conn, grants, store, passed, token, session>>

Capabilities == {"read_metadata", "read_content"}
\* Without read_content a message is stored with no text: another content hash.
Contents == {"headers", "full"}
Evidence == (1..Pages) \X Contents
Statuses == {"PENDING_AUTHORIZATION", "ACTIVE", "SYNC_FAILED", "DISCONNECTED"}
Errors == {None, "reason"}

\* SQL's NULL is no status and no error code.
ASSUME NoneAssumption == None \notin Statuses \cup {"reason"}

\* Sync: "loaded", "page", "holding", "failed".  Consent: "asked", "toggled".
\* Disconnect: "leaving", "revoked", "cleared".
Places == {"idle", "loaded", "page", "holding", "failed",
           "asked", "toggled", "leaving", "revoked", "cleared"}

\* status: as loaded, until it has been looked at, then the one asked for.  granted:
\* as read.  caps, give: grant rows it has locked and what it writes there.  row: it has updated the connectors row.
Idle == [at |-> "idle", status |-> None, cursor |-> 0, granted |-> {}, caps |-> {}, give |-> FALSE,
         row |-> FALSE, pages |-> 0, wrote |-> {}, missed |-> {}]

\* createConnector: awaiting consent unless something was granted; with or without
\* a credential.
Init ==
  /\ grants \in SUBSET Capabilities
  /\ token \in BOOLEAN
  /\ conn = [status |-> IF grants = {} THEN "PENDING_AUTHORIZATION" ELSE "ACTIVE",
             cursor |-> 0, secret |-> token, error |-> None]
  /\ store = [e \in Evidence |-> 0]
  /\ passed = {}
  /\ session = [s \in Sessions |-> Idle]

RowFree(s) == \A r \in Sessions \ {s} : ~session[r].row
GrantsFree(s, caps) == \A r \in Sessions \ {s} : session[r].caps \cap caps = {}

-----------------------------------------------------------------------------
(* Sync.                                                                   *)

\* DISCONNECTED and PENDING are refused, and so is a connector with no credential.
LoadSync(s) ==
  /\ session[s].at = "idle"
  /\ \E backfill \in BOOLEAN :
       session' = [session EXCEPT ![s] =
         IF conn.status \in {"ACTIVE", "SYNC_FAILED"} /\ conn.secret
         THEN [Idle EXCEPT !.at = "loaded", !.status = conn.status, !.cursor = IF backfill THEN 0 ELSE conn.cursor]
         ELSE [Idle EXCEPT !.at = "failed"]]
  /\ UNCHANGED <<conn, grants, store, passed, token>>

\* A failed connector is made ACTIVE first, if it still is failed; then the grants.
ReadGrants(s) ==
  LET heals == session[s].status = "SYNC_FAILED" /\ conn.status = "SYNC_FAILED" IN
  /\ session[s].at = "loaded"
  /\ session[s].status = "SYNC_FAILED" => RowFree(s)
  /\ session' = [session EXCEPT ![s] =
       IF grants = {} THEN [Idle EXCEPT !.at = "failed"]
       ELSE [session[s] EXCEPT !.at = "page", !.status = None, !.granted = grants, !.row = heals]]
  /\ UNCHANGED <<conn, grants, store, passed, token>>

NextPage_PastTheEnd(cursor) == cursor + 1

\* After the last page the provider's token is empty, and reading starts over.
NextPage(cursor) == IF cursor = Pages THEN 1 ELSE cursor + 1

Fetch(s) ==
  /\ session[s].at = "page"
  /\ session[s].pages < MaxPages
  /\ token
  /\ session' = [session EXCEPT ![s].at = "holding", ![s].cursor = NextPage(@), ![s].pages = @ + 1]
  /\ UNCHANGED <<conn, grants, store, passed, token>>

\* The status a session's own transaction sees.
Sees(s) == IF session[s].row THEN "ACTIVE" ELSE conn.status

Prepared(s) == <<session[s].cursor, IF "read_content" \in session[s].granted THEN "full" ELSE "headers">>

KeyFree_Always(s) == TRUE

\* The advisory lock on the idempotency key, and the unique index behind it.
KeyFree(s) == \A r \in Sessions \ {s} : Prepared(s) \notin session[r].wrote

\* importSource looks first, and connector_ingestion_active at the insert.
Stopped(s) == Sees(s) # "ACTIVE"

Ingest(s) ==
  /\ session[s].at = "holding"
  /\ \/ /\ "read_metadata" \notin session[s].granted
        /\ session' = [session EXCEPT ![s].at = "page", ![s].missed = @ \cup {session[s].cursor}]
     \/ /\ "read_metadata" \in session[s].granted
        /\ KeyFree(s)
        /\ ~Stopped(s)
        /\ session' = [session EXCEPT ![s].at = "page",
             ![s].wrote = IF store[Prepared(s)] > 0 THEN @ ELSE @ \cup {Prepared(s)}]
  /\ UNCHANGED <<conn, grants, store, passed, token>>

Resumed_KeepsStatus(s) == [conn EXCEPT !.cursor = session[s].cursor, !.error = None]

\* The row as the sync leaves it: its cursor UPDATE does not look at the status.
Resumed(s) == [conn EXCEPT !.status = IF session[s].row THEN "ACTIVE" ELSE @,
                           !.cursor = session[s].cursor, !.error = None]

Kept(s) == [e \in Evidence |-> IF e \in session[s].wrote THEN store[e] + 1 ELSE store[e]]

FinishSync(s) ==
  /\ session[s].at = "page" /\ session[s].pages > 0
  /\ RowFree(s)
  /\ conn' = Resumed(s)
  /\ store' = Kept(s)
  /\ passed' = passed \cup session[s].missed
  /\ session' = [session EXCEPT ![s] = Idle]
  /\ UNCHANGED <<grants, token>>

FailSync_SavesCursor(s) ==
  /\ session[s].at = "page"
  /\ RowFree(s)
  /\ conn' = [conn EXCEPT !.cursor = session[s].cursor]
  /\ session' = [session EXCEPT ![s] = [Idle EXCEPT !.at = "failed"]]
  /\ UNCHANGED <<grants, store, passed, token>>

\* The provider is unreachable or refuses the token: everything is rolled back ...
FailSync(s) ==
  /\ session[s].at = "page"
  /\ session' = [session EXCEPT ![s] = [Idle EXCEPT !.at = "failed"]]
  /\ UNCHANGED <<conn, grants, store, passed, token>>

Failed ==
  IF conn.status \in {"ACTIVE", "SYNC_FAILED"}
  THEN [conn EXCEPT !.status = "SYNC_FAILED", !.error = "reason"] ELSE conn

\* ... and the reason is recorded afterwards.
RecordSyncFailure(s) ==
  /\ session[s].at = "failed"
  /\ RowFree(s)
  /\ conn' = Failed
  /\ session' = [session EXCEPT ![s] = Idle]
  /\ UNCHANGED <<grants, store, passed, token>>

-----------------------------------------------------------------------------
(* Consent.                                                                *)

LoadGrants(s) ==
  /\ session[s].at = "idle"
  /\ conn.status # "DISCONNECTED"
  /\ session' = [session EXCEPT ![s] = [Idle EXCEPT !.at = "asked", !.status = conn.status]]
  /\ UNCHANGED <<conn, grants, store, passed, token>>

Granted(caps, give) == IF give THEN grants \cup caps ELSE grants \ caps

\* The status a session asks for, judged by the one it loaded; None is no UPDATE.
Consent(loaded, caps) ==
  LET status == IF caps = {} THEN "PENDING_AUTHORIZATION" ELSE "ACTIVE" IN
  IF status # loaded /\ loaded \in {"ACTIVE", "PENDING_AUTHORIZATION"} THEN status ELSE None

\* One grant row is updated, then the set of them read.
Toggle(s, cap, give) ==
  /\ session[s].at = "asked"
  /\ GrantsFree(s, {cap})
  /\ session' = [session EXCEPT ![s].at = "toggled", ![s].caps = {cap}, ![s].give = give,
                                ![s].status = Consent(@, Granted({cap}, give))]
  /\ UNCHANGED <<conn, grants, store, passed, token>>

Check_Dropped == TRUE

\* connectors_disconnected_state: no other status once disconnected_at is set.
Check == conn.status # "DISCONNECTED"

SetGrants(s) ==
  /\ session[s].at = "toggled"
  /\ \/ session[s].status = None /\ UNCHANGED conn
     \/ /\ session[s].status # None
        /\ RowFree(s)
        /\ Check
        /\ conn' = [conn EXCEPT !.status = session[s].status]
  /\ grants' = Granted(session[s].caps, session[s].give)
  /\ session' = [session EXCEPT ![s] = Idle]
  /\ UNCHANGED <<store, passed, token>>

-----------------------------------------------------------------------------
(* Disconnect.                                                             *)

LoadDisconnect(s) ==
  /\ session[s].at = "idle"
  /\ conn.status # "DISCONNECTED"
  /\ session' = [session EXCEPT ![s] = [Idle EXCEPT !.at = IF conn.secret THEN "leaving" ELSE "revoked"]]
  /\ UNCHANGED <<conn, grants, store, passed, token>>

RevokeAtProvider_AfterFailure(s) ==
  /\ session[s].at = "leaving"
  /\ token' \in BOOLEAN
  /\ session' = [session EXCEPT ![s].at = "revoked"]
  /\ UNCHANGED <<conn, grants, store, passed>>

\* The provider's call; when it fails nothing is written (Rollback).
RevokeAtProvider(s) ==
  /\ session[s].at = "leaving"
  /\ token' = FALSE
  /\ session' = [session EXCEPT ![s].at = "revoked"]
  /\ UNCHANGED <<conn, grants, store, passed>>

\* UPDATE ... WHERE granted: the rows granted as the statement starts.
Leaving == grants

ClearGrants(s) ==
  /\ session[s].at = "revoked"
  /\ GrantsFree(s, Leaving)
  /\ session' = [session EXCEPT ![s].at = "cleared", ![s].caps = Leaving, ![s].give = FALSE]
  /\ UNCHANGED <<conn, grants, store, passed, token>>

Disconnected == [status |-> "DISCONNECTED", cursor |-> 0, secret |-> FALSE, error |-> None]

Disconnect(s) ==
  /\ session[s].at = "cleared"
  /\ RowFree(s)
  /\ conn' = Disconnected
  /\ grants' = Granted(session[s].caps, FALSE)
  /\ session' = [session EXCEPT ![s] = Idle]
  /\ UNCHANGED <<store, passed, token>>

-----------------------------------------------------------------------------
\* A refused statement, a crash, a deadlock victim, a failure that is not recorded.
Rollback(s) ==
  /\ session[s].at # "idle"
  /\ session' = [session EXCEPT ![s] = Idle]
  /\ UNCHANGED <<conn, grants, store, passed, token>>

Next ==
  \E s \in Sessions :
    \/ LoadSync(s) \/ ReadGrants(s) \/ Fetch(s) \/ Ingest(s)
    \/ FinishSync(s) \/ FailSync(s) \/ RecordSyncFailure(s)
    \/ LoadGrants(s) \/ SetGrants(s)
    \/ \E cap \in Capabilities, give \in BOOLEAN : Toggle(s, cap, give)
    \/ LoadDisconnect(s) \/ RevokeAtProvider(s) \/ ClearGrants(s) \/ Disconnect(s)
    \/ Rollback(s)

Spec == Init /\ [][Next]_vars

-----------------------------------------------------------------------------
(* Properties.                                                             *)

Session == [at : Places, status : Statuses \cup {None}, cursor : 0..Pages, granted : SUBSET Capabilities,
            caps : SUBSET Capabilities, give : BOOLEAN, row : BOOLEAN, pages : 0..MaxPages,
            wrote : SUBSET Evidence, missed : SUBSET (1..Pages)]

\* The variables have their types.
TypeOK ==
  /\ conn \in [status : Statuses, cursor : 0..Pages, secret : BOOLEAN, error : Errors]
  /\ grants \in SUBSET Capabilities
  /\ store \in [Evidence -> Nat]
  /\ passed \in SUBSET (1..Pages)
  /\ token \in BOOLEAN
  /\ session \in [Sessions -> Session]

\* However many syncs read a page, from the cursor or from the start, the same
\* read of the same message is one evidence row.
StoredOnce == \A e \in Evidence : store[e] <= 1

Covered(item) == item \in passed \/ \E content \in Contents : store[<<item, content>>] > 0

\* The stored cursor never runs ahead of the evidence: resuming from it misses no
\* message, whatever failed, was rolled back or ran beside the sync that moved it.
CursorCovers == \A item \in 1..conn.cursor : Covered(item)

\* No message of the mailbox is lost behind the cursor, or stored twice, whatever
\* syncs overlap, fail and are tried again.
MailboxCovered == StoredOnce /\ CursorCovers

\* What a disconnect did is never taken back by a sync or a consent that began
\* before it: the connector stays disconnected and holds no credential.
DisconnectedForGood ==
  [][conn.status = "DISCONNECTED" => conn'.status = "DISCONNECTED" /\ ~conn'.secret]_vars

\* A connector is recorded as disconnected only when the provider has revoked
\* its token: a failed or lost revocation is never a completed disconnect.
RevokedBeforeRecorded == conn.status = "DISCONNECTED" => ~token

\* A disconnected connector holds no granted capability.
DisconnectRevokesGrants == conn.status = "DISCONNECTED" => grants = {}

\* A connector shown as failed shows why.
FailureNamesReason == conn.status = "SYNC_FAILED" => conn.error # None

\* A connector is active only while something is granted, and awaits consent
\* only while nothing is.
StatusFollowsGrants ==
  /\ conn.status = "ACTIVE" => grants # {}
  /\ conn.status = "PENDING_AUTHORIZATION" => grants = {}

-----------------------------------------------------------------------------
(* The inductive invariant behind them.                                    *)

\* An open sync has accounted for the first n messages: in evidence that is there or
\* that it has inserted, or among those it will pass over.
Accounted(t, n) ==
  \A item \in 1..n : \/ Covered(item) \/ item \in t.missed
                     \/ \E content \in Contents : <<item, content>> \in t.wrote

\* What a session at t may rely on: where its sync has read to, that what it inserts
\* is new, that a connector it has healed is still failed for the others, that no
\* consent asks for a disconnect, and that the provider has revoked what it is about
\* to record as revoked.
SessionKnows(t) ==
  /\ t.at \in {"loaded", "page"} => Accounted(t, t.cursor)
  /\ t.at = "holding" => t.cursor > 0 /\ Accounted(t, t.cursor - 1)
  /\ \A e \in t.wrote : store[e] = 0
  /\ t.row => conn.status = "SYNC_FAILED"
  /\ t.at = "toggled" => t.status \in {None, "ACTIVE", "PENDING_AUTHORIZATION"}
  /\ t.at \in {"revoked", "cleared"} => ~token

\* The locks of two open transactions: the connectors row, the idempotency keys.
Apart(t, u) == ~(t.row /\ u.row) /\ t.wrote \cap u.wrote = {}

SessionsKnow == \A s \in Sessions : SessionKnows(session[s])
SessionsApart == \A r, s \in Sessions : r # s => Apart(session[r], session[s])

\* The credential goes only after its token, and with the connector.
SecretKept ==
  /\ token => conn.secret
  /\ conn.status = "DISCONNECTED" => ~conn.secret

IInv == TypeOK /\ MailboxCovered /\ SecretKept /\ SessionsKnow /\ SessionsApart
=============================================================================
