---------------------------- MODULE AuditVerify ----------------------------
(***************************************************************************)
(* agentctl audit --verify: the local audit log held against the batches    *)
(* the operator committed on chain, while the logger of AuditLogger goes    *)
(* on anchoring.                                                            *)
(*                                                                          *)
(* Source: packages/cli/src/cli.ts, verifyEntries(), with canonicalize()    *)
(* and proofsForBatch() of audit/logger.ts and the reads of                 *)
(* audit/anchor.ts.                                                         *)
(*                                                                          *)
(* A row is a record: its id, whether its contents, its timestamp and its   *)
(* stored entry_hash are the ones record() wrote.  A root is the set of     *)
(* rows it commits to, compared by their leaves: the leaf is made from the  *)
(* contents and the timestamp, never from the stored hash.  A Merkle proof  *)
(* built from the local rows leads to the local root, so verifyEntry()      *)
(* accepts it exactly when that is the root on chain.                       *)
(*                                                                          *)
(* Covered:     rows edited, deleted or moved to another batch between two  *)
(*              passes; batches mined while the command runs; an --agent    *)
(*              filter; unreadable batches and a wrong RPC.                 *)
(* Not covered: the store changed behind the command's back while it runs.  *)
(***************************************************************************)
EXTENDS AuditLogger

CONSTANTS
  AgentIds,      \* the ids of the entries --agent selects
  MaxDamages     \* bound on the edits to the store

Ids == {r.id : r \in Rows}

ASSUME VerifyAssumption ==
  /\ Rows = [id : Ids, contents : {"recorded", "edited"},
             hash : {"recorded", "edited"}, time : {"recorded", "postdated"}]
  /\ AgentIds \subseteq Ids
  /\ MaxDamages \in Nat

VARIABLES
  look,          \* where the command stands
  scope,         \* the ids it was asked about
  listed,        \* the rows log.list() returned
  unread,        \* of these, the rows getById() has not been called for
  group,         \* byBatch: the batch a listed row was found in, 0 for none
  unchecked,     \* the batches of byBatch still to compare
  problem,       \* failed > 0 or a problem was noted
  errored,       \* errored > 0
  unanswered,    \* history: no chain id, or no batch list, of the operator's chain came back
  meanwhile,     \* since the command began: "quiet", "moved" or "replaced"
  deleted,       \* ids of deleted rows: a UUID does not come back
  damages

verification == <<look, scope, listed, unread, group, unchecked, problem, errored,
                  unanswered, meanwhile>>
allVars      == <<vars, verification, deleted, damages>>

VerifyInit ==
  /\ Init
  /\ look = "off" /\ scope = {} /\ listed = {} /\ unread = {} /\ unchecked = {}
  /\ group = [r \in Rows |-> 0]
  /\ problem = FALSE /\ errored = FALSE /\ unanswered = FALSE /\ meanwhile = "quiet"
  /\ deleted = {} /\ damages = 0

-----------------------------------------------------------------------------
(* Leaves, and the rows as record() writes them *)

AsRecorded(r) == r.contents = "recorded" /\ r.hash = "recorded" /\ r.time = "recorded"

\* canonicalize(): the hash is derived from the contents.
Canonical(r) == [r EXCEPT !.hash = r.contents]
Leaves(S) == {Canonical(r) : r \in S}
StoredHashMatches(r) == r.hash = r.contents

\* A block was replaced, or a batch was mined, tagged or released.
Noticed ==
  IF meanwhile = "replaced" \/ Len(chain') < Len(chain) THEN "replaced"
  ELSE IF chain' # chain \/ tag' # tag THEN "moved"
  ELSE meanwhile

\* The logger goes on; a new row is as record() writes it, under a new id.
LoggerStep ==
  /\ Next
  /\ \A r \in rows' \ rows : AsRecorded(r) /\ r.id \notin deleted \cup {s.id : s \in rows}
  /\ meanwhile' = IF look = "grouping" THEN Noticed ELSE meanwhile
  /\ UNCHANGED <<look, scope, listed, unread, group, unchecked, problem, errored,
                 unanswered, deleted, damages>>

-----------------------------------------------------------------------------
(* What happens to the store other than through the logger *)

Damage ==
  /\ damages < MaxDamages /\ damages' = damages + 1
  /\ look = "off"
  /\ \A p \in Passes : stage[p] = "idle"
  /\ UNCHANGED <<passes, env, faults, verification>>

\* One column at a time.
EditRow(r, s) ==
  /\ Damage
  /\ r \in rows
  /\ \E column \in {"contents", "hash", "time"} : s # r /\ s = [r EXCEPT ![column] = s[column]]
  /\ rows' = (rows \ {r}) \cup {s}
  /\ tag' = [tag EXCEPT ![s] = tag[r], ![r] = Unbatched]
  /\ UNCHANGED deleted

DeleteRow(r) ==
  /\ Damage
  /\ r \in rows
  /\ rows' = rows \ {r}
  /\ tag' = [tag EXCEPT ![r] = Unbatched]
  /\ deleted' = deleted \cup {r.id}

MoveRow(r, batch) ==
  /\ Damage
  /\ r \in rows /\ batch # tag[r]
  /\ tag' = [tag EXCEPT ![r] = batch]
  /\ UNCHANGED <<rows, deleted>>

-----------------------------------------------------------------------------
(* verifyEntries() *)

logging == <<vars, deleted, damages>>

\* assertChainId() throws: another chain answers, or none.  The exit code is 2.
WrongChain ==
  /\ look = "off"
  /\ Fault
  /\ look' = "done" /\ problem' = TRUE /\ unanswered' = TRUE
  /\ UNCHANGED <<store, passes, env, deleted, damages>>
  /\ UNCHANGED <<scope, listed, unread, group, unchecked, errored, meanwhile>>

\* The command returns at once when there is nothing to show.
ListEntries(ids) ==
  /\ look = "off"
  /\ scope' = ids
  /\ listed' = {r \in rows : r.id \in ids}
  /\ look' = IF listed' = {} THEN "done" ELSE "grouping"
  /\ unread' = listed'
  /\ meanwhile' = "quiet"
  /\ UNCHANGED <<logging, group, unchecked, problem, errored, unanswered>>

BatchIndex(r) == tag[r].index

\* getById(), one await per listed row.
LookUp(r) ==
  /\ look = "grouping" /\ r \in unread
  /\ unread' = unread \ {r}
  /\ group' = [group EXCEPT ![r] = BatchIndex(r)]
  /\ unchecked' = unchecked \cup ({BatchIndex(r)} \ {0})
  /\ UNCHANGED <<logging, look, scope, listed, problem, errored, unanswered, meanwhile>>

Group(i) == {r \in listed : group[r] = i}
EntryCount(i) == Cardinality(chain[i].root)

\* proofs.get(e.id) is undefined: the row has left the batch since.
NoProof(i) ==
  /\ i \in DOMAIN chain
  /\ \E r \in Group(i) : r.id \notin {s.id : s \in EntriesInBatch(i)}

\* Mutant: the entries are checked, the batch as a whole is not.
BatchUnseen(i) == FALSE

BatchMismatch(i) ==
  \/ i \notin DOMAIN chain
  \/ EntriesInBatch(i) # {} /\ Leaves(EntriesInBatch(i)) # Leaves(chain[i].root)
  \/ Cardinality(EntriesInBatch(i)) # EntryCount(i)

RowMismatch(i) ==
  /\ i \in DOMAIN chain
  /\ \E r \in Group(i), s \in EntriesInBatch(i) :
       r.id = s.id /\ (r.time = "postdated" \/ ~StoredHashMatches(s))

NextBatch(i) ==
  /\ look = "grouping" /\ unread = {}
  /\ i \in unchecked /\ \A j \in unchecked : i <= j
  /\ unchecked' = unchecked \ {i}
  /\ UNCHANGED <<store, passes, env, deleted, damages, look, scope, listed, unread,
                 group, unanswered, meanwhile>>

CheckGroup(i) ==
  /\ NextBatch(i)
  /\ problem' = (problem \/ BatchMismatch(i) \/ RowMismatch(i))
  /\ errored' = (errored \/ NoProof(i))
  /\ UNCHANGED faults

\* A read of the batch throws: its result is unknown, the others stand.
GroupUnreadable(i) ==
  /\ NextBatch(i)
  /\ Fault
  /\ errored' = TRUE
  /\ UNCHANGED problem

\* Mutant: unanchored entries are counted too.
ListedLocally == Cardinality(listed)

AnchoredLocally == Cardinality({r \in listed : group[r] # 0})
\* The sum of the entry counts, as the number of committed leaves.
CommittedTotal == Cardinality(UNION {{i} \X chain[i].root : i \in DOMAIN chain})

\* Mutant: only entries that were never committed are noticed.
ExtraEntries == CommittedTotal < AnchoredLocally

CompletenessGap == CommittedTotal # AnchoredLocally

Finish ==
  /\ look = "grouping" /\ unread = {} /\ unchecked = {}
  /\ look' = "done"
  /\ UNCHANGED <<store, passes, env, deleted, damages>>
  /\ UNCHANGED <<scope, listed, unread, group, unchecked, errored, meanwhile>>

\* Completeness is only asked about the whole log.
CheckTotal ==
  /\ Finish
  /\ problem' = (problem \/ (scope = Ids /\ CompletenessGap))
  /\ UNCHANGED <<faults, unanswered>>

\* getAllBatches() throws: noted as a problem like a gap is.
TotalUnreadable ==
  /\ Finish
  /\ scope = Ids
  /\ Fault
  /\ problem' = TRUE
  /\ unanswered' = TRUE

ExitCode == IF problem THEN 2 ELSE IF errored THEN 1 ELSE 0

-----------------------------------------------------------------------------

VerifyNext ==
  \/ \E r \in Rows : DeleteRow(r) \/ LookUp(r)
  \/ \E r, s \in Rows : EditRow(r, s)
  \/ \E r \in Rows, batch \in AnchoredBatches \cup {Unbatched} : MoveRow(r, batch)
  \/ LoggerStep
  \/ \E ids \in {Ids, AgentIds} : ListEntries(ids)
  \/ \E i \in 1 .. MaxBatches : CheckGroup(i) \/ GroupUnreadable(i)
  \/ WrongChain \/ CheckTotal \/ TotalUnreadable

VerifySpec == VerifyInit /\ [][VerifyNext]_allVars

-----------------------------------------------------------------------------
Reports == look # "done" /\ look' = "done"

\* The rows that were listed are the committed ones, batch by batch, untouched.
ListingMatchesChain ==
  /\ \A i \in DOMAIN chain :
       /\ Leaves(Group(i)) = Leaves(chain[i].root)
       /\ \A r \in Group(i) : StoredHashMatches(r) /\ r.time = "recorded"
  /\ \A r \in listed : group[r] # 0 => group[r] \in DOMAIN chain

(***************************************************************************)
(* cli.ts:497: exit code 0 over a whole log with an entry left in it means  *)
(* that every batch on chain is there, complete and unedited, whatever was  *)
(* edited, deleted or moved before, in any combination the counts could     *)
(* cancel out in, whatever is mined, tagged or released while the command   *)
(* runs; only a block replaced behind it escapes it.                        *)
(***************************************************************************)
CleanMeansIntact ==
  [][Reports /\ ExitCode' = 0 /\ scope' = Ids /\ listed' # {} /\ meanwhile' # "replaced" =>
       ListingMatchesChain]_allVars

(***************************************************************************)
(* The same for --agent, where completeness is not checked: the entries it  *)
(* saw as anchored are committed with these contents, and the log has all   *)
(* their neighbours in those batches.                                       *)
(***************************************************************************)
SeenMeansCommitted ==
  [][Reports /\ ExitCode' = 0 /\ meanwhile' # "replaced" =>
       \A r \in listed : group[r] # 0 =>
         /\ group[r] \in DOMAIN chain
         /\ Canonical(r) \in Leaves(chain[group[r]].root)
         /\ Leaves(chain[group[r]].root) \subseteq Leaves(rows)]_allVars

(***************************************************************************)
(* cli.ts:654, "A mismatch or a completeness gap is a real integrity        *)
(* failure": over the whole log, exit code 2 is never given for rows that   *)
(* are exactly what the chain has, whatever batches could not be read, when *)
(* nothing is mined, replaced, tagged or released meanwhile, and the right  *)
(* chain answered for its id and for the total.  When it did not, the       *)
(* command exits with 2 as well (cli.ts:531, 643), whatever the log holds.  *)
(***************************************************************************)
AlarmMeansMismatch ==
  [][Reports /\ ExitCode' = 2 /\ scope' = Ids /\ meanwhile' = "quiet" /\ ~unanswered' =>
       ~ListingMatchesChain]_allVars

(***************************************************************************)
(* logger.ts:129 for flush() called by hand: nothing the logger does on its *)
(* own leaves a tagged row that cannot be proved and will not be released.  *)
(***************************************************************************)
NothingStrandedUndamaged == damages = 0 => NothingStranded
=============================================================================
