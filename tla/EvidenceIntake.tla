---------------------------- MODULE EvidenceIntake ----------------------------
(****************************************************************************)
(* How evidence is stored once (packages/api/src/evidence.ts, migrations     *)
(* 0004, 0005, 0008): requests that name a transport key and carry a content  *)
(* run one transaction each, at READ COMMITTED, beside one another and beside *)
(* deletions of what they find.  A row is named by the request that stored    *)
(* it, so its content and its key are that request's.                         *)
(****************************************************************************)
EXTENDS Naturals, FiniteSets

CONSTANTS
    Uploads,
    Keys,          \* idempotency keys
    Contents,      \* a source identity with its content hash
    MaxFailures    \* bound: storage failures and lost connections

VARIABLES
    request,   \* each request: where it is, its key and content, the row it settled on,
               \* and whether the receipt that names the row is its own insert
    rows,      \* each row: absent, uncommitted, live, or a tombstone
    receipts,  \* each key: the row its receipt names
    objects,   \* the rows whose bytes are in storage
    deleting,  \* the rows an uncommitted deletion has locked
    failures

intakeVars == <<request, rows, receipts, objects, deleting, failures>>

NoRow == "no row"
ASSUME IntakeAssumption == NoRow \notin Uploads /\ MaxFailures \in Nat

Unasked == "unasked"
Ends == {"idle", "stored", "refused"}
Stages == Ends \cup {"asked", "locked", "conflicting", "found", "sharing", "noted", "confirmed", "writing", "written"}

InTransaction(r) == request[r].at \notin Ends \cup {"asked"}
Stored(r) == rows[r] = "uncommitted"
Goes(r, stage) == request' = [request EXCEPT ![r].at = stage]
\* The transaction ends without effect.
Refuse(r) ==
    /\ Goes(r, "refused")
    /\ rows' = [rows EXCEPT ![r] = IF Stored(r) THEN "absent" ELSE @]

\* The rows committed and live with this content, or with this key: what the two
\* unique constraints of source_items compare.
SameContent(r) == {x \in Uploads : rows[x] = "live" /\ request[x].content = request[r].content}
SameKey(r) == {x \in Uploads : rows[x] = "live" /\ request[x].key = request[r].key}
\* An uncommitted insert or deletion of such a row makes the insert wait.
Undecided(r) ==
    {x \in Uploads \ {r} :
        /\ rows[x] = "uncommitted" \/ x \in deleting
        /\ request[x].content = request[r].content \/ request[x].key = request[r].key}

\* A receipt shows through the row policy only while its row is live.
Receipt(r) == IF receipts[request[r].key] # NoRow /\ rows[receipts[request[r].key]] = "live"
              THEN receipts[request[r].key] ELSE NoRow
\* Uploads that hold the row in place through a foreign key.
Holders(x) ==
    {r \in Uploads :
        /\ request[r].row = x
        /\ \/ request[r].at = "written"
           \/ request[r].mine /\ request[r].at \in {"noted", "confirmed", "writing"}}

Ask(r, key, content) ==
    /\ request[r].at = "idle"
    /\ request' = [request EXCEPT ![r] = [at |-> "asked", key |-> key, content |-> content,
                                       row |-> NoRow, mine |-> FALSE]]
    /\ UNCHANGED <<rows, receipts, objects, deleting, failures>>

\* The advisory lock on the key, then what its receipt already names.
Lock(r) ==
    /\ request[r].at = "asked"
    /\ \A q \in Uploads : InTransaction(q) => request[q].key # request[r].key
    /\ IF Receipt(r) # NoRow /\ request[Receipt(r)].content # request[r].content
       THEN Refuse(r) ELSE Goes(r, "locked") /\ UNCHANGED rows
    /\ UNCHANGED <<receipts, objects, deleting, failures>>

\* INSERT ... ON CONFLICT DO NOTHING.
Insert(r) ==
    /\ request[r].at = "locked" /\ Undecided(r) = {}
    /\ IF SameContent(r) \cup SameKey(r) = {}
       THEN /\ rows' = [rows EXCEPT ![r] = "uncommitted"]
            /\ request' = [request EXCEPT ![r].at = "found", ![r].row = r]
       ELSE Goes(r, "conflicting") /\ UNCHANGED rows
    /\ UNCHANGED <<receipts, objects, deleting, failures>>

\* The row already there is read by its identity, in a statement of its own.
Find(r) ==
    /\ request[r].at = "conflicting"
    /\ IF SameContent(r) = {} THEN Refuse(r)
       ELSE /\ \E x \in SameContent(r) : request' = [request EXCEPT ![r].at = "found", ![r].row = x]
            /\ UNCHANGED rows
    /\ UNCHANGED <<receipts, objects, deleting, failures>>

\* The receipt's insert: the policy reads the row as committed when it starts ...
Note(r) ==
    /\ request[r].at = "found"
    /\ IF rows[request[r].row] \in {"live", "uncommitted"} THEN Goes(r, "sharing") /\ UNCHANGED rows ELSE Refuse(r)
    /\ UNCHANGED <<receipts, objects, deleting, failures>>

\* ... and, unless the key has a receipt already, its foreign key then waits for a
\* deletion of the row to end.
Share(r) ==
    /\ request[r].at = "sharing"
    /\ \/ receipts[request[r].key] # NoRow /\ Goes(r, "noted")
       \/ /\ receipts[request[r].key] = NoRow /\ request[r].row \notin deleting
          /\ request' = [request EXCEPT ![r].at = "noted", ![r].mine = TRUE]
    /\ UNCHANGED <<rows, receipts, objects, deleting, failures>>

\* The receipt is read back: it must be there, and name this row.
Confirms(r) == IF request[r].mine THEN rows[request[r].row] # "erased" ELSE Receipt(r) = request[r].row
Confirm(r) ==
    /\ request[r].at = "noted"
    /\ IF Confirms(r) THEN Goes(r, "confirmed") /\ UNCHANGED rows ELSE Refuse(r)
    /\ UNCHANGED <<receipts, objects, deleting, failures>>

\* A new row's bytes are put; then the triage route and the anchors are inserted,
\* whose policies again read the row ...
Put(r) ==
    /\ request[r].at = "confirmed"
    /\ IF rows[request[r].row] = "erased" THEN Refuse(r) /\ UNCHANGED objects
       ELSE /\ Goes(r, "writing") /\ UNCHANGED rows
            /\ objects' = IF Stored(r) THEN objects \cup {r} ELSE objects
    /\ UNCHANGED <<receipts, deleting, failures>>

\* ... before their foreign keys wait for a deletion of it to end.
WriteBytes(r) ==
    /\ request[r].at = "writing" /\ request[r].row \notin deleting
    /\ Goes(r, "written")
    /\ UNCHANGED <<rows, receipts, objects, deleting, failures>>

Commit(r) ==
    /\ request[r].at = "written"
    /\ Goes(r, "stored")
    /\ rows' = [rows EXCEPT ![r] = IF Stored(r) THEN "live" ELSE @]
    /\ receipts' = [receipts EXCEPT ![request[r].key] = IF request[r].mine THEN request[r].row ELSE @]
    /\ UNCHANGED <<objects, deleting, failures>>

\* Storage fails or the connection is lost: an object already put stays behind,
\* under a key that no row names.
Fail(r) ==
    /\ InTransaction(r) /\ failures < MaxFailures
    /\ Refuse(r) /\ failures' = failures + 1
    /\ UNCHANGED <<receipts, objects, deleting>>

\* A deletion locks the row (FOR UPDATE) against whoever holds it in place ...
Delete(x) ==
    /\ rows[x] = "live" /\ x \notin deleting /\ Holders(x) = {}
    /\ deleting' = deleting \cup {x}
    /\ UNCHANGED <<request, rows, receipts, objects, failures>>

\* The same, the receipts left to name the tombstone.
Deleted_KeepsReceipts(x) ==
    /\ x \in deleting
    /\ deleting' = deleting \ {x} /\ rows' = [rows EXCEPT ![x] = "erased"]
    /\ objects' = objects \ {x}
    /\ UNCHANGED <<request, receipts, failures>>
\* ... and commits: tombstone, receipts and bytes gone.
Deleted(x) ==
    /\ x \in deleting
    /\ deleting' = deleting \ {x} /\ rows' = [rows EXCEPT ![x] = "erased"]
    /\ receipts' = [k \in Keys |-> IF receipts[k] = x THEN NoRow ELSE receipts[k]]
    /\ objects' = objects \ {x}
    /\ UNCHANGED <<request, failures>>

DeletionFails(x) ==
    /\ x \in deleting /\ failures < MaxFailures
    /\ deleting' = deleting \ {x} /\ failures' = failures + 1
    /\ UNCHANGED <<request, rows, receipts, objects>>

IntakeInit ==
    /\ request = [r \in Uploads |-> [at |-> "idle", key |-> Unasked, content |-> Unasked,
                                      row |-> NoRow, mine |-> FALSE]]
    /\ rows = [r \in Uploads |-> "absent"] /\ receipts = [k \in Keys |-> NoRow]
    /\ objects = {} /\ deleting = {} /\ failures = 0

IntakeNext ==
    \E r \in Uploads :
        \/ \E key \in Keys, content \in Contents : Ask(r, key, content)
        \/ Lock(r) \/ Insert(r) \/ Find(r) \/ Note(r) \/ Share(r) \/ Confirm(r) \/ Put(r) \/ WriteBytes(r) \/ Commit(r)
        \/ Fail(r) \/ Delete(r) \/ Deleted(r) \/ DeletionFails(r)

IntakeSpec == IntakeInit /\ [][IntakeNext]_intakeVars

IntakeTypeOK ==
    /\ request \in [Uploads -> [at : Stages, key : Keys \cup {Unasked}, content : Contents \cup {Unasked}, row : Uploads \cup {NoRow},
                                mine : BOOLEAN]]
    /\ rows \in [Uploads -> {"absent", "uncommitted", "live", "erased"}]
    /\ receipts \in [Keys -> Uploads \cup {NoRow}]
    /\ objects \subseteq Uploads /\ deleting \subseteq Uploads /\ failures \in 0..MaxFailures

\* Whatever retries, keys and deletions overlap: a content has one live row, and
\* that row its bytes; a receipt names a live row; and what was answered under a
\* key is its receipt's row for as long as that row lives, so that the key never
\* comes to stand for a second content.
StoredOnceUnderOneKey ==
    /\ \A x, y \in Uploads :
          rows[x] = "live" /\ rows[y] = "live" /\ request[x].content = request[y].content => x = y
    /\ \A x \in Uploads : rows[x] = "live" => x \in objects
    /\ \A k \in Keys : receipts[k] # NoRow => rows[receipts[k]] = "live"
    /\ \A r \in Uploads :
          request[r].at = "stored" /\ rows[request[r].row] = "live" =>
              /\ receipts[request[r].key] = request[r].row
              /\ request[request[r].row].content = request[r].content

-----------------------------------------------------------------------------
(* The inductive invariant behind it.                                       *)

Early == {"idle", "asked", "locked", "conflicting", "refused"}
Late == {"confirmed", "writing", "written"}

\* A row is its request's to commit: uncommitted as long as the request acts on it,
\* and no other request has found it before; whoever found it asked for its content.
RowFits(r, mine) ==
    /\ mine.at # "idle" => mine.key \in Keys /\ mine.content \in Contents
    /\ mine.at \in Early => rows[r] = "absent"
    /\ mine.at \notin Early =>
          /\ mine.row \in Uploads /\ request[mine.row].content = mine.content
          /\ mine.row # r => rows[r] = "absent" /\ rows[mine.row] \in {"live", "erased"}
          /\ mine.row = r => IF mine.at = "stored" THEN rows[r] \in {"live", "erased"} ELSE rows[r] = "uncommitted"

\* A receipt of the request's own is the first of its key, and its row stays once that
\* is confirmed; a receipt it found names its row for as long as that lives.
ReceiptFits(mine) ==
    /\ mine.at \in (Early \ {"refused"}) \cup {"found", "sharing"} => ~mine.mine
    /\ mine.mine /\ mine.at \in Late \cup {"noted"} =>
          receipts[mine.key] = NoRow /\ mine.row \notin deleting
    /\ mine.mine /\ mine.at \in Late => rows[mine.row] # "erased"
    /\ /\ mine.at = "stored" \/ (mine.at \in Late /\ ~mine.mine)
       /\ rows[mine.row] # "erased"
       => receipts[mine.key] = mine.row

RequestsFit == \A r \in Uploads : RowFits(r, request[r]) /\ ReceiptFits(request[r])

Present(x) == rows[x] \in {"uncommitted", "live"}

\* Neither two rows, nor a row and one about to be committed, share a content.
OneEach ==
    \A x, y \in Uploads :
        Present(x) /\ Present(y) /\ request[x].content = request[y].content => x = y

\* The advisory lock keeps transactions of one key apart.
KeysApart ==
    \A q, r \in Uploads :
        InTransaction(q) /\ InTransaction(r) /\ request[q].key = request[r].key => q = r

\* A row has its bytes before it is committed, and until it is erased.
BytesThere ==
    \A x \in Uploads :
        rows[x] = "live" \/ (rows[x] = "uncommitted" /\ request[x].at \in {"writing", "written"}) => x \in objects

ReceiptsLive ==
    /\ \A k \in Keys : receipts[k] # NoRow => rows[receipts[k]] = "live"
    /\ \A x \in deleting : rows[x] = "live"

IntakeInv == IntakeTypeOK /\ RequestsFit /\ OneEach /\ KeysApart /\ BytesThere /\ ReceiptsLive
=============================================================================
