# A formal model of Lied

Lied is a sheet-music server for ensembles: one axum process over PostgreSQL and
an S3-compatible object store, with three surfaces on the same domain code: the
`/v1` REST interface, the server-rendered `/admin` console and a WebDAV tree.
This directory holds TLA+ modules translated from `src/lied/src` and
`src/migrations`, TLC configurations that check them on small instances, and
TLAPS proofs about them for every value of their constants.

What makes the code hard is the same everywhere: PostgreSQL runs at READ
COMMITTED and a call on the connection pool commits by itself, so a handler that
reads, decides and writes does three things between which other requests run;
and nothing spans PostgreSQL and the object store.

## 1. The system

| component | state | operations | who it meets |
|---|---|---|---|
| Collections (`domain/collection.rs`) | one row per programme, soft-deleted | create, update, delete, undelete | items, WebDAV tree |
| Collection items (`domain/collection_item.rs`) | rows numbered within a programme, soft-deleted | add, move, reorder, remove, restore | part assignments, coverage, tree |
| Part assignments (`domain/part_assignment.rs`) | who plays a voice of a piece, when told and when acknowledged | assign (upsert), update state, unassign | items, voices, WebDAV visibility |
| Arrangements, voices (`domain/arrangement.rs`, `voice.rs`) | rows with a slug unique among the live ones, soft-deleted | create, update, delete, undelete | files, items, search |
| Works, tags (`domain/work.rs`, `tag.rs`) | rows; which arrangements carry a tag | create, update, delete, attach, detach | search |
| Search documents (`migrations/0022_search.sql`) | a stored vector per arrangement | triggers on four tables | arrangements, works, tags |
| Files (`domain/file.rs`, `file_service.rs`, `storage.rs`) | a row per version, an object per name | upload, replace, delete, undelete | WebDAV writes, arrangements and voices |
| WebDAV tree (`webdav/`) | none but a write buffer per open file | read, list, write, remove | files, assignments (what a musician may see) |
| Organizations (`domain/organization.rs`) | one row | create, rename, hard delete with a cascade | everything below them |
| Memberships (`domain/membership.rs`) | role and instruments of a user in an organization | create, update, remove | every authorization decision |
| Users, app passwords, sessions, CSRF, bearer tokens (`auth/`, `domain/user.rs`, `domain/app_password.rs`) | rows, a session record, stateless tokens | login, logout, mint, create, revoke | every request |
| Audit log (`domain/audit_log.rs`) | append-only rows | one insert after each write | nobody reads it to decide |
| Coverage, listings, instruments, probes, configuration, telemetry, CLI | none of their own | queries and start-up | |

What each must get right, and what makes it hard:

- *Collection items*: numbers and arrangements unique among live pieces; numbers
  1..n after a reorder, a removal or a restore; every operation atomic to the
  others. Hard: a renumbering is a dozen statements that first park every number
  out of the way, several may run at once, and each statement has a snapshot of
  its own.
- *Memberships*: an organization keeps an owner; nobody overwrites an edit they
  did not see; nobody acts on an organization they do not own. Hard: check and
  write are separate statements without a transaction.
- *Files*: a file that can be opened has its own bytes; a place with a file does
  not lose it to a failed replacement; what was never stored cannot be restored.
  Hard: the row is committed first and the bytes follow, either may fail or never
  happen, and the object's key is computed from slugs that others may take over.
- *Part assignments*: an acknowledgement belongs to the player the part is given
  to; a part has one player. Hard: the version check and the write are apart.
- *Catalog* (works, arrangements, voices, collections, tags): one live row per key;
  a deleted row comes back as it was; the audit log claims no change that was not
  made. Hard: a handler reads, compares a version, writes and logs in four steps.
- *Search documents*: the stored document is what its sources say. Hard: each
  trigger reads the snapshot of its own statement.
- *WebDAV visibility*: a musician sees the live voices given to them and no
  others, in either tree.
- *Organizations*: the cascade leaves nothing behind, or everything.
- *Sessions*: a session that was logged out stays so; the token a page shows is
  the one the session compares.

`PROJECT.json` lists every component with what is modelled of it, and each hazard
at its line.

## 2. Modules

| module | models | lines it stands for |
|---|---|---|
| `ItemRows` | rows of one programme, their unique indexes, orderings of pieces | `0013`, `0021`, `collection_item.rs` |
| `RunningOrder` | abstract: every operation on the running order at once | |
| `CollectionItems` | the same operations, statement by statement | `collection_item.rs`, the handlers in `routes/collections.rs`, `routes/admin/collections.rs` |
| `Membership` | requests that manage memberships, statement by statement | `membership.rs`, `routes/orgs.rs`, `routes/admin/members.rs`, `auth/authz.rs`, `listing.rs` |
| `PartBook` | abstract: what is in the catalog and the programmes, who plays what | |
| `PartAssignment` | requests that hand parts out, mark and take them back, statement by statement | `part_assignment.rs`, `routes/part_assignments.rs`, `routes/admin/collections.rs` |
| `Repertoire` | the arrangements that `PartBook` and `SearchIndex` are both about | |
| `WebdavTree` | what the listings of both WebDAV trees show, open and let be written, and what a coverage report counts, over `PartBook` | `webdav/access.rs`, `webdav/fs.rs`, `coverage.rs` |
| `FileStore` | file rows, objects, and the requests that write both | `file.rs`, `file_service.rs`, `storage.rs`, `webdav/fs.rs`, `routes/files.rs`, `routes/admin/files.rs` |
| `Catalog` | the handlers of works, arrangements, voices, collections and tags on both surfaces, their rows, versions, unique keys and audit entries, and the pages of their lists | `work.rs`, `arrangement.rs`, `voice.rs`, `collection.rs`, `tag.rs`, the handlers in `routes/arrangements.rs`, `routes/collections.rs` and `routes/admin/`, `listing.rs`, `pagination.rs`, `audit_log.rs` |
| `SearchIndex` | the stored search documents and the triggers that keep them | `0022_search.sql`, the writes of `arrangement.rs`, `work.rs`, `tag.rs` |
| `Organizations` | organizations, users and every row that refers to them; the cascade against concurrent inserts and deletes | `organization.rs`, `user.rs`, `auth/admin.rs`, the handlers in `routes/orgs.rs`, `routes/admin/orgs.rs`, the references of the migrations |
| `Sessions` | one browser, its cookies and forms, sessions, bearer tokens, app passwords | `auth/session.rs`, `csrf.rs`, `extractors.rs`, `webdav.rs`, `routes/v1.rs`, `routes/webdav.rs`, `routes/admin/mod.rs`, `app_password.rs`, `user.rs` |
| `MC...` | constants for TLC | |
| `..._proofs` | theorems | |

`PartBook` joins the programmes, the parts and the WebDAV tree: `PartAssignment`
implements it, and `WebdavTree` extends it with what its rows show. `Organizations`
joins the rows of all tables, as far as one refers to another. The other
components share no state that any of these decisions reads (a membership is
read once, at the start of a request, an item does not look at files, and of a
collection's items parts only ask whether they are live), so they are not
composed. A row may appear in two modules when two questions are asked of it: an
arrangement is a row with a key and a version in `Catalog`, the source of a
document in `SearchIndex`, a place of files in `FileStore`, something that is there
or not in `PartBook`, and something referred to in `Organizations`.

A definition that begins with "as if" in its comment is not part of the model: it
is a variant of the definition after it that a property is tested against.

### CollectionItems

One collection. `row` is the committed version of every row, `new` what a
transaction has written so far, `holder` the row's lock, `tx` what every request
is doing. A statement sees `new` of the rows its own transaction has written and
`row` of the others. Each SQL statement is one step, except `SELECT ... FOR
UPDATE` and the parking `UPDATE`, which take their snapshot in one step
(`Select`, `ParkSnapshot`) and their locks one by one afterwards (`LockRow`): that
is what PostgreSQL does, and where the order that was sorted can be older than
the rows that are locked. A write that meets a key another transaction is about
to give up or take waits (`Contended`); one that meets a key that is certainly
taken fails and rolls back (`Taken`). A request may be dropped at any step
(`Cancel`), and a cycle of waits is broken by aborting one of its members
(`DeadlockVictim`). `Init` is any collection at rest: pieces 1..n, some removed.

Abstracted: `create` and `update_index` read and check their input before the
statement that is modelled; the collection's own row; who may call; the second
sort key, which the unique index makes irrelevant; `soft_delete` and `undelete`
of `collection_item.rs`, which no handler calls.

### Membership

`table` holds the rows of all organizations, `req` what every connection is
doing. `Look` is an editor opening a member (the version shown comes back as
`If-Match` or `expected_version`); `Receive` reads the caller's role in the
organization the path names; `Find` is `find_member_scoped`, the version check
and the merge of the fields left out; `Check` and `Count` are the reads of
`membership::update` and `delete`; `Write` is their last statement, which asks
nothing of the row but its id. `Drop` is a client that goes away between any two.
`Overlap` says whether a request may arrive while another is served. `ver` stands
for `updated_at`; `MaxVersion` bounds how often a row is written.

The organization-wide capabilities of the other roles, the lists and the
`is_principal` flag, which only decides who is shown a coverage report, are left out.

### FileStore

`place` is an arrangement or a voice, `file` the rows (numbered in the order of
`created_at`), `object` which row's bytes are at each key, a slug and an
extension, `req` what every request is doing. An upload is `Create` then `Store` (or `Abort`, `Erase`); a
replacement is `Resolve`, `Swap`, then `Store` (or `Abort`, `Revert`); a WebDAV
write first looks (`Locate`) and then does one or the other, with `Discard` in
place of `Erase`. `/v1` replaces a file by one of the same extension only; WebDAV
goes by the format, so a write of `a.png` replaces the row of `a.jpg` and leaves its
object where it was. The three deletions differ in what they look up first:
`Remove` (console), `RemoveV1`, which reaches a hidden voice, and `Unlink` (WebDAV). `LoseAnswer` is an upload that was completed although its
answer was an error; `UndoFails` a compensation that fails, `Crash` a process
that dies or a handler dropped with its connection. `stored` is a history
variable: the rows whose upload was reported as done. `Faults` says which of
these may happen, `MaxFiles` bounds the rows ever inserted. One name and format
per place: rows of other names or formats share neither an index entry nor an
object with these. `Exts` are the extensions of that format.

### PartBook, PartAssignment and WebdavTree

`live` holds the arrangements, voices, collections and items that are not
soft-deleted, `player` who is assigned. `Hide` and `Show` are the soft deletes
and restores of all four, each in one step with its handler's checks (their own
races are `CollectionItems`' and `FileStore`'s matter); a row that was not
created yet is one that is not live. In `WebdavTree` the paths stand for the rows
they resolve to, and every `EXISTS` query of `access.rs` and every listing of
`fs.rs` is an operator over the rows and the memberships (`role`). `Required` and
`Assigned` are the coverage report of a programme as staff see it; a principal's
is the part of it for some instruments. `ResolveForWrite`, `WriteVoice` and
`WriteAnnotation` guard both writing and removing.

In `PartAssignment` an editor looks (`Look`), sends a request (`Receive`), the
row is found and its version compared (`Find`) and one statement writes
(`Write`); a request of the console names its form's row and version, one of
`/v1` its path and `If-Match`. `assign` and `assign_part` are the upsert on the
two surfaces, `update` and `mark` the state update, `delete` and `unassign` the
removal; the console's last two carry no version. `clock` counts the writes and
stands for `now()`; a row's `id` is the write that inserted it. A timestamp is
modelled by whom the editor who set it saw as the player: that is all
`StampsOfTheHolder` asks of one.

### Catalog

`row` holds the rows of five tables: whether one is live, soft-deleted or gone,
its name, slug, work, version (`at`) and who created it. A request reads what it
names and compares the version in its first step (the action named after the
handler), changes one row in its statement (the action named after the function
of `domain/`), and writes its audit entry (`audit`); others run in between, and a
handler of the console that carries no version differs only in what it asks.
`owed` counts, for every kind of entry and row, the changes made less the entries
written. A request is `sure` when its handler writes the entry whether or not the
statement found a row; one whose statement a unique index refuses ends without
(`Refused`). `Drop` is a client that goes away. Requests that are refused
at once change nothing and are left out. `resolve`, `Before` and the `list_*`
operators are the pages of a list: every order that the sort key and the
tie-break leave open is tried.

### SearchIndex

A transaction of one statement: `Write` takes the row's lock and makes the change,
`refresh` is the snapshot of its trigger's `UPDATE`, `LockRow` its wait for each row
whose document it will store, `Commit` both at once. The document is computed in
the snapshot and not again after the wait, which is what PostgreSQL does with a
function in `SET` whose queries run in the snapshot of the calling statement; the
condition of the `UPDATE` is looked at again. The trigger of a work also fires when
only its title changed (`retitled`), which no document contains. `raced` is a history variable: the
arrangements whose last two documents came from transactions that overlapped.

### Organizations

Rows refer to rows (`refs`), in the order of the columns. An `INSERT` waits for its
unique keys (`Insert`), locks what it refers to one by one (`LockParent`) and is
there at its commit (`Inserted`). A transaction of `DELETE`s (`plan`) takes its
snapshot (`Statement`), locks and deletes row by row (`TakeRow`), asks whether a row
that stays refers to one that goes (`EndOfStatement`) and commits (`Deleted`).
`Waits` says who waits for whom, `Victim` breaks a cycle of two. `Found` is the rows
each statement of the cascade matches. Users and works are of no organization
(`Shared`); a work's creator cannot be deleted while the work is there. A row's
columns other than its references are left out, and so are updates of rows below an
organization, which lock no parent, and `file.derived_from_file_id`, which no code
gives a value (`file_service.rs:111` and `webdav/fs.rs` insert none, a
replacement copies it).

### Sessions

A request carries what the browser held when it was sent, loads its session into
a copy (`data`), works on the copy and stores it at its end if it changed it
(`save`); the session id and the token it may make up are its own number, for
random ones do not repeat. `tower-sessions` is external: a record is inserted when
it is stored and missing, `cycle_id` and `flush` delete it at once. `root` says
which session a session goes back to through logins, `ended` which were deleted,
and each request remembers what had already ended when it was sent (`spent`,
`absent`). App passwords are found, compared and used in three steps. The login of
`/v1` and of the console differ in their answers only. A request whose method is
safe or whose path is exempt ensures a token (`Ensured`), and if it came without the
readable cookie the middleware appends one to its answer (`csrf`), also to that of a
logout, after the cookie that the handler takes away (`CsrfCookie`). A request that
needs a token goes by the record its cookie names: without one it is refused, which
is also what happens between the `Forget` of a login and its answer
(`FormsAccepted`). A logout whose record cannot be deleted is left out.

## 3. What TLC checks

| run | instance | shows |
|---|---|---|
| `items_renumbering` | 3 pieces, 2 clients, reorder and remove | concurrent renumberings are atomic, deadlocks and dropped requests included, are steps of `RunningOrder`, and leave 1..n |
| `items_concurrent` | 2 pieces, 2 clients, every operation, with fairness | live pieces never share a number; every call ends |
| `members_serial` | 2 users, 2 organizations, 2 editors, one request at a time, fields given, taken or left out | what is written was validated, an owner stays, no unseen overwrite, no reach into another organization |
| `members_two_demotions` | 2 users, 1 organization, roles only, overlapping requests | *violated*: `OwnerKept` |
| `files_serial` | 2 places, 2 extensions, 1 client, 4 rows, every operation, any upload or compensation may fail and the process may die | a stored file that can be opened or comes back has its own bytes |
| `files_crashing` | 1 place, 2 extensions, 2 clients, 4 rows, every fault | a place with a stored file keeps a live one |
| `dav_tree` | 2 arrangements, 3 voices, 2 programmes that share a piece's arrangement, 2 users of any role | what is listed opens and the reverse; both trees, the coverage report and the writes agree on who has which part; no directory is empty to a musician or guest |
| `parts_serial` | 1 piece, a voice that fits and one that does not, 2 editors, 2 players, 4 writes, every request but the mark, one at a time | an editor writes over what they looked at only, timestamps are the player's, the rows follow `PartBook` |
| `catalog` | 1 work, 2 rows of every other table, the second absent or deleted with the name of the first, or nothing at all, 2 clients of whom one is a system administrator | keys stay unique, deleted rows stay as they were, the audit log names the changes made and no other (with the exceptions of section 4), pages partition a list |
| `search` | 2 arrangements, 1 work, 2 tags, 2 clients, 3 transactions, any catalog that is up to date | documents are what a query would compute, but for arrangements two overlapping transactions concerned; who edits one arrangement is no deadlock victim |
| `orgs` | one row of every table, works included, a second tag and a second organization and user of the same keys, 2 clients, 3 requests, every population that misses at most two of the rows | the cascade takes all or nothing, is refused only when overtaken, deadlocks with two kinds of insert and with another deletion at the same statement only; what `/v1` deletes is recorded |
| `sessions` | 1 browser with 3 requests in flight, 1 user, 1 app password | sessions are final, a form is good while its session or one it became by logins is there, nobody gets in with what had ended |

Bounds. Three pieces are the fewest of which two change places around a third;
two clients are enough for every pair of statements to interleave and for a
deadlock. `MaxIndex` and `ParkOffset` are 3 and 4, or 2 and 3, in place of the
code's large ones. Two users and two ids are two owners, of whom each can count
the other. Four rows of files are a file, two overlapping replacements of it and one more
that stands in the way of what either takes back; two extensions are what a WebDAV
write of another one needs. An arrangement in two programmes is the smallest instance
where a part in one piece could open another; a second arrangement in none is
where a voice could be handed out that does not fit. Four writes of the parts are
a row, its replacement or removal, a row again and an edit of it. Two rows of one
table are what it takes to clash on a key, and one of them deleted is what it
takes to restore into a clash. Three transactions are two that overlap and one
that shows what they left. Three requests on organizations are a cascade, what it
waits for and what overtakes it; one row of each table is what every statement of
the cascade needs to find something, and the second tag what it takes for two
cascades to come to the rows of one statement in different orders. Three requests of a browser are a session,
its end, and one that was in flight all along. Symmetry is used in safety runs
only.

Deadlock is not checked where the instance is meant to stop: ids, versions, rows
or requests have run out. It is checked in `items_renumbering`, `items_concurrent`,
`dav_tree`, `parts_serial` and `orgs`, where a state in which transactions wait for
each other and no victim is chosen would be one.

Fairness. Only `items_concurrent` assumes any: strong fairness of a request's next
statement (PostgreSQL queues the waiters of a lock, so a request whose lock is
free again and again gets it) and weak fairness of the deadlock detector (it runs
after `deadlock_timeout`). Nobody has to call and nobody has to give up.

## 4. Where the code and its comments disagree

*Two owners step down at once* (`members_two_demotions`, with its quotation in
`PROJECT.json`). Both count the other one; the organization has no owner.

The following are behaviours of the same models, and no run is kept for them.

Of the running order:

- `restore` lists the live pieces and then parks under a newer snapshot; a piece
  another restore brought back in between is parked and never numbered, and stays
  at its parked number (`collection_item.rs:590`, against `:435-438`;
  `items_renumbering` with restores alone violates `NumbersDense`);
- a restore that waits for a reorder has sorted the pieces before it waited, and
  writes the old order back (`items_renumbering` with restores among its kinds is
  no longer a `RunningOrder`);
- the console's append is not held to `MAX_INDEX`, although
  `collection_item.rs:61-64` says both surfaces are.

Of files:

- `undelete` looks for newer files of the same arrangement; the object may have
  been overwritten by another arrangement that took the slug (`file.rs:586`,
  against `:58-60`; `files_serial` with one slug for both places violates
  `ComesBackWhole`);
- a failed replacement leaves its row restorable: the new row never had bytes, but
  `restore_replaced` soft-deletes it, and once the old file is deleted it is the
  newest of its name and passes `undelete`, where `file.rs:617-618` says "a
  soft-delete would leave a restorable row pointing at nothing" (a deleted row
  that is not in `stored` when `files_serial` is at rest);
- two writes of one file that finish in the other order leave the older bytes
  under the newer row (`files_serial` with two clients and `Overlap = TRUE`
  violates `OwnBytes` and `ComesBackWhole`);
- a lost answer to a completed upload leaves the new bytes under the old row
  (`files_serial` with `"answer"` among its faults violates `OwnBytes`);
- a replacement whose compensation fails leaves the new row live, where
  `file_service.rs:225-227` expects no live row.

Of memberships and parts:

- the console marks the row of a part by its id, which a reassignment keeps; the
  new player is on record as notified or acknowledged although the editor saw the
  old one (`admin/collections.rs:1580`, against `part_assignment.rs:12-15`;
  `parts_serial` with the mark among its kinds violates `StampsOfTheHolder`);
- two editors with the same version both pass `If-Match` (`members_serial` with
  `Overlap = TRUE` violates `OnlyWhatWasSeen`, and so does `parts_serial`, where
  two first assignments of one voice carry no version at all);
- `visible_org_slugs` lists an organization to a guest whose only part is for a
  voice or an arrangement that was deleted, and everything below it is empty: the
  "phantom empty directory" that `access.rs:202-206` avoids for collections
  (`VisibleOrg` in `dav_tree` with every `VisibleArrangements` empty);
- `/v1` writes a `membership.delete` entry for a row somebody else has removed.

Of the catalog:

- the console's restore of a collection and its updates of a work and of a tag
  write their audit entry although nothing was changed, where
  `admin/arrangements.rs:1592-1593` says of a voice "nothing changed, so don't
  write a misleading audit entry"; `/v1` writes the entry of a deleted work before
  the `DELETE`, which an arrangement may refuse (the set `Unsure`, which
  `AuditTruthful` leaves out; with it in, `catalog` violates the property);
- restoring an arrangement, a voice or a tag whose key was taken answers with a
  server error, restoring a collection with a conflict (`Refused`, which writes no
  entry in any handler);
- two tags of one name without a kind may both be live, since an absent kind is
  no key (`Kindless`);
- a work that only a soft-deleted arrangement refers to cannot be deleted;
- the console's deletions carry no version, its updates do.

Of search documents: two overlapping transactions that concern one arrangement
may leave it with the old text of one of them, where `0022_search.sql:16-19` has "the
invariant [...] that renaming a Work's composer or a Tag reindexes the arrangements
that reference it" (`FreshUnlessRaced` without its exception fails in `search`).

Of organizations and users:

- `user.rs:283-299` names memberships, assignments and annotations as what refuses
  a deletion and leaves the `created_by` columns to "`ON DELETE` behavior already
  declared on the FK", of which there is none: they refuse it too, and so do the
  rows of app passwords, revoked ones included;
- the audit entry of a change whose actor has been deleted meanwhile fails on the
  actor's foreign key and is lost;
- two user names that differ in punctuation alone give one slug, and the second
  one's creation a server error.

Of sessions:

- the readable CSRF cookie is not replaced when the browser still presents one
  (`csrf.rs:170-190`): after a session has ended, scripts send the token of the old
  one and are refused, where `csrf.rs:4-9` has them copy the cookie to match the
  session (`FormsAccepted` speaks of forms, not of headers: with four requests,
  `sessions` reaches a browser at rest that is refused with the cookie it holds);
- a login deletes the record of the session it replaces before it answers
  (`cycle_id`): a form that the browser posts in between still carries the old id,
  finds no token and gets a 403 (`csrf.rs:94-96`), although the browser was never
  logged out (after a logout or an expiry a form is refused as it should be);
- a logout that is posted without the readable cookie leaves the browser with the
  token of the session it ended: the middleware appends its cookie
  (`csrf.rs:179-184`) after the one by which the handler takes it away
  (`admin/mod.rs:292-295`);
- `mint_token` does not look up the user of a session: a deleted user's session
  mints a token, which then opens nothing.

## 5. What is proved

For every number of clients, pieces, voices, users, organizations, places, files,
rows and requests:

| theorem | says |
|---|---|
| `CollectionItems_proofs.TypeCorrect` | `Spec => []TypeOK` |
| `CollectionItems_proofs.LiveRowsUnique` | `Spec => []UniqueLive` |
| `CollectionItems_proofs.NumbersStayDense` | `Spec => []NumbersDense`, if only reorder and remove run |
| `CollectionItems_proofs.RenumberingIsAtomic` | `Spec => ImplementsOrder`, if only reorder and remove run |
| `Membership_proofs.TypesHold`, `RowsAreValid` | `Spec => []TypeOK`, `Spec => [](TypeOK /\ PrincipalsWithin)` |
| `Membership_proofs.OwnerKeptOneByOne` | `Spec => OwnerKept`, if requests do not overlap |
| `Membership_proofs.ManagedOneByOne`, `SeenOneByOne` | `Spec => ManagedByOwners`, `Spec => OnlyWhatWasSeen`, if requests do not overlap |
| `PartAssignment_proofs.TypeCorrect` | `Spec => []TypeOK` |
| `PartAssignment_proofs.Implements` | `Spec => ImplementsBook`, overlapping requests and marks included |
| `PartAssignment_proofs.SeenOneByOne` | `Spec => OnlyWhatWasSeen`, if requests do not overlap |
| `PartAssignment_proofs.StampsOneByOne` | `Spec => []StampsOfTheHolder`, if requests do not overlap and the console marks nothing |
| `Views_proofs.TypeCorrect` | `TreeSpec => [](TypeOK /\ PartsFit)` |
| `Views_proofs.ListingsOpen` | `TreeSpec => []ListedIffOpens` |
| `Views_proofs.OneAccess` | `TreeSpec => []AccessAgrees` |
| `Views_proofs.NoEmptyDirectories` | `TreeSpec => []NothingEmpty` |
| `FileStore_proofs.TypeCorrect` | `Spec => []TypeOK` |
| `FileStore_proofs.NeverLostUndeleted` | `Spec => []NeverLost`, if nobody deletes files |
| `FileStore_proofs.OwnBytesOneByOne`, `WholeOneByOne` | `Spec => []OwnBytes`, `Spec => ComesBackWhole`, if requests do not overlap, no upload succeeds in spite of an error, and places have slugs of their own |
| `Catalog_proofs.TypesHold` | `Spec => []TypeOK` |
| `Catalog_proofs.KeysStayUnique` | `Spec => []KeysUnique` |
| `Catalog_proofs.DeletedRowsKeep` | `Spec => FrozenWhileDeleted` |
| `Catalog_proofs.BooksKept` | `Spec => []Books`: whoever made a change owes its audit entry, nobody else does |
| `Catalog_proofs.LogIsTruthful`, `LogIsComplete` | `Spec => []AuditTruthful`, `Spec => []AuditComplete` |
| `Catalog_proofs.PagesCoverOnce` | `Spec => []PagesPartition` |
| `Organizations_proofs.TypesHold` | `Spec => []TypeOK` |
| `Organizations_proofs.RemovalsRecorded` | `Spec => []RemovalRecorded` |
| `Organizations_proofs.ReferencesAlwaysHold` | `Spec => []ReferencesHold`: no row refers to one that is gone |
| `Organizations_proofs.LeavesWhole` | `Spec => AllOrNothing` |
| `Organizations_proofs.RefusedOnlyWhenOvertaken` | `Spec => []OnlyRacesRefuse` |
| `Organizations_proofs.FewDeadlocks` | `Spec => []DeadlocksOfTwoParents` |
| `Views_proofs.SearchTypeCorrect` | `SearchSpec => []SearchTypeOK` |
| `Views_proofs.DocumentsFresh` | `SearchSpec => []FreshUnlessRaced` |
| `Views_proofs.FewVictims` | `SearchSpec => []VictimsShareMany` |
| `Sessions_proofs.TypesHold` | `Spec => []TypeOK` |
| `Sessions_proofs.SessionsAreFinal` | `Spec => RecordsAreFinal` |
| `Sessions_proofs.FormsStayGood` | `Spec => []FormsAccepted` |
| `Sessions_proofs.NobodyPassesLate` | `Spec => []GrantedWasLive` |

The assumptions are the named `ASSUME`s of the modules: finitely many pieces,
`MaxIndex < ParkOffset`, bodies and kinds of the right shape, every voice and
piece with an arrangement, rows of different tables apart, finitely many clients
and rows of the catalog, an organization's population closed under its
references, and that the names for "nobody" are nobody. Two assumptions say what a row of a
table may refer to. `ForeignKeys` lists the foreign keys of migrations 0007 to
0017. `OneOrganization` says that a row refers to rows of its own organization only, of
which no foreign key knows: every handler that adds a row finds its parents in
the organization of its path (`collections.rs:684`, `admin/collections.rs:840`,
`part_assignment.rs:100`, `scope_voice` of `files.rs`), and no statement moves a
row to another organization.

*LiveRowsUnique.* `UniqueLive` speaks of committed rows and is not inductive: a
commit makes written versions the committed ones. `IInv` adds that the newest
versions are apart as well, and that the newest version of a row one transaction
holds is apart from the committed version of every row held by another or by
nobody (`Apart`), and which rows a transaction has locked at each statement
(`Locks`), so that what it writes is its own.

*NumbersStayDense, RenumberingIsAtomic.* When nothing but reorder and remove runs
(`Renumbering`), what a request's `SELECT` returned is every live row (`Selects`):
none can become live, and whoever removes one holds it from its first statement
on. From then on the request has locked them all (`Places`), so that nobody parks
the pieces while another removes one, and its positions count the rows that
everybody sees. Before that it has written nothing but the mark on the piece it removes
(`Written`), so that its order is the committed one and its commit one step of
`RunningOrder`. With restores among the kinds both fail (section 4): a restore
holds nothing before it lists the pieces.

*RowsAreValid.* The fields a request will write passed `validate_fields`
(`Validated`) and stay in the request, so another write in between cannot mix
with them; what is written is the whole of both lists.

*OwnerKeptOneByOne.* While one request is served at a time (`Alone`), what it
counted still holds when it writes (`Counted`). `members_two_demotions` shows that
the premise is needed.

*ManagedOneByOne, SeenOneByOne* of `Membership`. One at a time, the caller's role, the
row's organization and its version are at the write what they were when they were
read (`Standing`). Neither read is repeated, which is what the premise is for.

*Implements.* Everything but `Write` leaves the players alone. A request keeps the
piece, the voice, the row and the player it named (`Named`), so `WrittenRow` can
say what each of its statements does to the one row it touches; that is a step of
`PartBook` or none.

*SeenOneByOne, StampsOneByOne.* While one request is served at a time (`Alone`),
the version `Find` compared is still the row's at the write (`Compared`). A
version names one holder (`Seen`), since every write takes a newer one (`Past`),
so a request that passed the comparison stamps for the player its editor saw. The
mark of the console has no version, which is what the premise about marks is for.

*OneAccess, NoEmptyDirectories.* The queries of the two trees join the parts with
different tables, and only agree because a part is never given for a voice of
another arrangement than the piece's: `PartsFit`, which is an invariant of the
`INSERT` and of nothing the queries check. The coverage report joins the same
tables as the collections tree and is right because a player is a user or nobody.
*ListingsOpen* needs no invariant.

*NeverLostUndeleted.* `NeverLost` speaks of stored rows; to survive compensations
the invariant speaks of rows that are stored or may still become so (`Coming`): a
place has one live row (`Unique`), it is the newest with bytes coming (`Newest`),
and there is one wherever a row has bytes coming (`Held`). A request in flight
owns its row (`Owned`), the row it replaced is dead, older, replaced by nobody
else and the last with bytes coming before its own (`Chained`), and a first
upload or an erased row has nothing with bytes before it (`Rooted`); so taking a
row back uncovers the right one.

*OwnBytesOneByOne, WholeOneByOne.* The bytes of a stored file are its own, or it is
deleted and a later one of its place was stored (`Whole`); what a request writes
is the newest row there is (`Latest`), and until it is stored the file it replaced still
has its bytes (`Recalled`), so taking the row back is right. Each premise is
needed: two places with one slug, two clients, or an upload that succeeds in spite
of its error each violate one of the two in `files_serial` (section 4).

*KeysStayUnique, DeletedRowsKeep.* Sixty actions fall into three kinds: a handler
that reads and takes a request (`Asks`), a statement that writes the one row its
request names and leaves the others (`Writes`), and the rest, which write no row
(`Passes`). Two requests never create the same row (`Reserved`), and one under way
names a row that is there unless it creates it (`Named`).

*LogIsTruthful, LogIsComplete.* `owed` counts the changes of each kind whose entries
are not written. For a state between a change and its entry that is not enough, so
`Books` counts who has yet to write one (`Due`): never fewer are owed than there
are requests that will write one, and not more unless a request was dropped. The deletion of a work
writes its entry first (`Early`) and counts the other way.

*PagesCoverOnce.* The position of a row in an order is one more than the rows
before it; a page takes the positions of an interval, and the intervals of the
pages cut up the positions. Each page may have been sorted in another of the
orders that the key leaves open, as long as the id decides.

*RemovalsRecorded, ReferencesAlwaysHold.* What is locked for an insert and what a
deletion has taken never meet (`Apart`), so the rows an insert has locked are there
when it commits (`Holds`); when a statement has ended no row that stays refers to
what it took, and no later insert can, for it would have to lock it (`Cut`).

*LeavesWhole, RefusedOnlyWhenOvertaken, FewDeadlocks.* How far a request has come
(`Course`): a cascade has taken rows of its own organization, of the tables of the
statements it has run and of no other, and has left one behind only if it was added
meanwhile (`raced`); the tables come in an order in which nothing that stays refers
to what goes. An insert has locked the first of the rows it refers to when it
waits for the second. The attempt to prove `FewDeadlocks` found a case that the instance of the
time, with one row of each table, could not reach: two deletions of one
organization at the same statement may take its rows in different orders. The property now says so
and `orgs` has a second tag.

*DocumentsFresh.* A transaction stores a document it computed from a snapshot that
may be old by then. As long as nobody commits a change that concerns the same
arrangement, the document is the one the transaction's change makes of the rows as they
are (`UpToDate`), every arrangement that needs a document has one (`AllOfThem`) and
no other does (`OnlyThose`). What carries the three past somebody else's commit is
that a change leaves the documents, the targets and the arrangements of another
one alone wherever it does not concern the arrangement (`Elsewhere`,
`NewTargets`, `LostBase`). That includes an arrangement that is only being put under
the work or the tag the other one changes, which is why `Concerns` looks
at the changes under way. No lock is needed for this.
*FewVictims*: a transaction that changes one arrangement holds the only row its
trigger asks for, and one that changes a pair holds nothing but the pair until it has
all it asks for (`HoldsItsOwn`). The `ASSUME`s had to say for it that a
tag's row on an arrangement is no arrangement's.

*SessionsAreFinal.* A request that loaded a session holds what the store holds, or
the session has ended (`Copy`). Whoever changes a copy had no session or gave its
id up, so what is stored goes under the request's own number (`Unused`): no record
is ever written twice. *FormsStayGood*: the token of a session is the one of the
session it goes back to (`Rooted`), so a form is refused by another line only; and
every session a browser has a cookie of was stored once, so a request that finds no
record of its session was sent with none or with one that has ended. *NobodyPassesLate*: what had ended when a
request was sent has no record it could load, or is no candidate any more
(`Granted`).

Only checked by TLC: that calls end (`CallsEnd`; liveness is beyond this prover).
Every other property of a passing run is stated by a theorem. The theorems with premises say nothing of what their premises
exclude; the runs and section 4 do.

## 6. Plan

Done: collection items, memberships, files, part assignments, the listings of the
WebDAV tree, the catalog, search documents, organizations and users, sessions.
Left, in this order:

1. `WebdavTree` further: the objects of annotations and of the personal library,
   which have no rows and are found by slugs; the sections of principals.
2. What an organization that takes a slug finds in the object store
   (`Organizations` with `FileStore`).

## 7. Not modelled

Text processing (slugs, MIME types, search queries, paths), HTML, OpenAPI,
configuration, telemetry, probes, password hashing, rate limiting and token
signatures have no states a model checker would tell apart. Of coverage the
acknowledgements, the dashboard and the sections of principals are left out, of
WebDAV the objects of annotations and of the personal library. Of the audit log the entries of memberships, parts, files
and sessions are left out; no decision reads it. Global annotations are a table
that no code writes yet; `Organizations` has rows of it because the cascade does.
The session library, PostgreSQL and the object store are external: PostgreSQL's
locking, snapshots, unique indexes and foreign keys are modelled from their
documented behaviour as far as the statements above depend on it, and are marked
external in `PROJECT.json`.

Two writes of one row are taken to fall in distinct milliseconds, so that a
version names one state of a row (`listing.rs:204-239` compares milliseconds).
