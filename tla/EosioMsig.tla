----------------------------- MODULE EosioMsig -----------------------------
(***************************************************************************)
(* eosio.msig: proposals, the approvals they collect (in the table         *)
(* "approvals2", or in the table "approvals" for proposals older than it), *)
(* invalidations, and execution as a deferred transaction.                 *)
(*                                                                         *)
(* A transaction stands for its packed bytes and for their hash; what the  *)
(* chain's check_transaction_authorization answers for it is given by the  *)
(* sets of permission levels that are enough.  Time is counted in          *)
(* half-second slots, expirations in seconds.  The level, canceler or      *)
(* account that an action names is the one that signed it.                 *)
(***************************************************************************)
EXTENDS Integers, FiniteSets, Sequences, Tables

CONSTANTS
    Account,        \* accounts that approve, cancel and invalidate
    Proposer,       \* accounts that propose
    ProposalName,
    Level,          \* permission levels
    LevelActor,     \* permission_level::actor
    Trx,            \* transactions
    Quorums,        \* transaction -> the sets of levels that authorize it
    Expiration,     \* transaction -> transaction_header::expiration
    NoHash,         \* approve without the optional hash
    MaxRequested,   \* bound: longest list of requested levels
    MaxSlot         \* bound: the last slot

ASSUME MsigAssumption ==
    /\ Proposer \subseteq Account
    /\ LevelActor \in [Level -> Account]
    /\ Quorums \in [Trx -> SUBSET SUBSET Level]
    /\ Expiration \in [Trx -> Nat]
    /\ NoHash \notin Trx
    /\ MaxRequested \in Nat /\ MaxSlot \in Nat \ {0}

VARIABLES
    proposal,       \* proposal tables: <<proposer, name>> -> packed_transaction
    approvals,      \* approvals2 tables
    oldApprovals,   \* approvals tables
    invals,         \* invals table: account -> last_invalidation_time
    sent,           \* deferred transactions not yet run, by sender id (external)
    now             \* current_time_point() (external)

msigVars == <<proposal, approvals, oldApprovals, invals, sent, now>>

Proposal == Proposer \X ProposalName

Requests == UNION {[1 .. n -> Level] : n \in 0 .. MaxRequested}

\* check_transaction_authorization.
Authorized(trx, levels) == \E quorum \in Quorums[trx] : quorum \subseteq levels

Expired(trx) == Expiration[trx] < now \div 2

\* Mutant: erases the entry after the i-th.
EraseNext(s, i) == SubSeq(s, 1, i) \o SubSeq(s, i + 2, Len(s))

\* vector::erase of the i-th entry.
Erase(s, i) == SubSeq(s, 1, i - 1) \o SubSeq(s, i + 1, Len(s))

Levels(list) == [i \in DOMAIN list |-> list[i].level]

\* std::find: i is the first entry of levels that is `level`.
IsFirst(levels, i, level) ==
    levels[i] = level /\ \A j \in 1 .. i - 1 : levels[j] # level

-----------------------------------------------------------------------------
Propose(p, requested, trx) ==
    /\ ~Expired(trx)
    /\ p \notin DOMAIN proposal
    /\ Authorized(trx, {requested[i] : i \in DOMAIN requested})
    /\ proposal' = Put(proposal, p, trx)
    /\ p \notin DOMAIN approvals
    /\ approvals' = Put(approvals, p,
                        [requested |-> [i \in DOMAIN requested |->
                                          [level |-> requested[i], time |-> 0]],
                         provided |-> << >>])
    /\ UNCHANGED <<oldApprovals, invals, sent, now>>

\* Moves `level` from one list of a row to the end of the other.
Approve(p, level, hash) ==
    /\ hash # NoHash => p \in DOMAIN proposal /\ proposal[p] = hash
    /\ IF p \in DOMAIN approvals
       THEN LET row == approvals[p] IN
            /\ \E i \in DOMAIN row.requested :
                 /\ IsFirst(Levels(row.requested), i, level)
                 /\ approvals' = [approvals EXCEPT ![p] =
                      [requested |-> Erase(row.requested, i),
                       provided |-> Append(row.provided, [level |-> level, time |-> now])]]
            /\ UNCHANGED oldApprovals
       ELSE /\ p \in DOMAIN oldApprovals
            /\ LET row == oldApprovals[p] IN
               \E i \in DOMAIN row.requested :
                 /\ IsFirst(row.requested, i, level)
                 /\ oldApprovals' = [oldApprovals EXCEPT ![p] =
                      [requested |-> Erase(row.requested, i),
                       provided |-> Append(row.provided, level)]]
            /\ UNCHANGED approvals
    /\ UNCHANGED <<proposal, invals, sent, now>>

Unapprove(p, level) ==
    /\ IF p \in DOMAIN approvals
       THEN LET row == approvals[p] IN
            /\ \E i \in DOMAIN row.provided :
                 /\ IsFirst(Levels(row.provided), i, level)
                 /\ approvals' = [approvals EXCEPT ![p] =
                      [requested |-> Append(row.requested, [level |-> level, time |-> now]),
                       provided |-> Erase(row.provided, i)]]
            /\ UNCHANGED oldApprovals
       ELSE /\ p \in DOMAIN oldApprovals
            /\ LET row == oldApprovals[p] IN
               \E i \in DOMAIN row.provided :
                 /\ IsFirst(row.provided, i, level)
                 /\ oldApprovals' = [oldApprovals EXCEPT ![p] =
                      [requested |-> Append(row.requested, level),
                       provided |-> Erase(row.provided, i)]]
            /\ UNCHANGED approvals
    /\ UNCHANGED <<proposal, invals, sent, now>>

\* Mutant: only the newer table is looked at.
EraseNewApprovals(p) == approvals' = Drop(approvals, p) /\ UNCHANGED oldApprovals

\* Erases the row of p from the table that has it; "proposal not found" else.
EraseApprovals(p) ==
    IF p \in DOMAIN approvals
    THEN approvals' = Drop(approvals, p) /\ UNCHANGED oldApprovals
    ELSE /\ p \in DOMAIN oldApprovals
         /\ oldApprovals' = Drop(oldApprovals, p)
         /\ UNCHANGED approvals

Cancel(p, canceler) ==
    /\ p \in DOMAIN proposal
    /\ canceler # p[1] => Expired(proposal[p])
    /\ proposal' = Drop(proposal, p)
    /\ EraseApprovals(p)
    /\ UNCHANGED <<invals, sent, now>>

\* Mutant: an approval of the slot of the invalidation still counts.
CountsInSlot(actor, time) == actor \in DOMAIN invals => invals[actor] <= time

\* actor did not invalidate its approvals since `time`.
Counts(actor, time) == actor \in DOMAIN invals => invals[actor] < time

\* The approvals exec counts: a row of the old table has no times, so any
\* invalidation of its actor counts against it.
Standing(p) ==
    IF p \in DOMAIN approvals
    THEN {approvals[p].provided[i].level : i \in
            {i \in DOMAIN approvals[p].provided :
               LET given == approvals[p].provided[i]
               IN Counts(LevelActor[given.level], given.time)}}
    ELSE {oldApprovals[p].provided[i] : i \in
            {i \in DOMAIN oldApprovals[p].provided :
               LevelActor[oldApprovals[p].provided[i]] \notin DOMAIN invals}}

Exec(p) ==
    /\ p \in DOMAIN proposal
    /\ ~Expired(proposal[p])
    /\ EraseApprovals(p)
    /\ Authorized(proposal[p], Standing(p))
    /\ p \notin DOMAIN sent
    /\ sent' = Put(sent, p, proposal[p])
    /\ proposal' = Drop(proposal, p)
    /\ UNCHANGED <<invals, now>>

Invalidate(account) ==
    /\ invals' = Put(invals, account, now)
    /\ UNCHANGED <<proposal, approvals, oldApprovals, sent, now>>

\* The chain runs, or gives up, a deferred transaction.
RunDeferred(p) ==
    /\ p \in DOMAIN sent
    /\ sent' = Drop(sent, p)
    /\ UNCHANGED <<proposal, approvals, oldApprovals, invals, now>>

NextSlot ==
    /\ now < MaxSlot
    /\ now' = now + 1
    /\ UNCHANGED <<proposal, approvals, oldApprovals, invals, sent>>

-----------------------------------------------------------------------------
\* The tables may hold proposals of the contract's first version; the first
\* block is not at time 0, which stands for the epoch.
MsigInit ==
    /\ proposal \in UNION {[P -> Trx] : P \in SUBSET Proposal}
    /\ approvals = NoRows
    /\ oldApprovals \in [DOMAIN proposal -> [requested : Requests, provided : Requests]]
    /\ \A p \in DOMAIN proposal :
         Len(oldApprovals[p].requested) + Len(oldApprovals[p].provided) <= MaxRequested
    /\ invals = NoRows
    /\ sent = NoRows
    /\ now = 1

MsigNext ==
    \/ \E p \in Proposal, requested \in Requests, trx \in Trx : Propose(p, requested, trx)
    \/ \E p \in Proposal, level \in Level :
         (\E hash \in Trx \cup {NoHash} : Approve(p, level, hash)) \/ Unapprove(p, level)
    \/ \E p \in Proposal, canceler \in Account : Cancel(p, canceler)
    \/ \E p \in Proposal : Exec(p) \/ RunDeferred(p)
    \/ \E account \in Account : Invalidate(account)
    \/ NextSlot

MsigSpec == MsigInit /\ [][MsigNext]_msigVars

-----------------------------------------------------------------------------
Approval == [level : Level, time : 0 .. MaxSlot]

\* The tables are well formed, and no proposal has more levels than it was
\* proposed with.
MsigTypeOK ==
    /\ IsTable(proposal, Proposal, Trx)
    /\ IsTable(approvals, Proposal, [requested : Seq(Approval), provided : Seq(Approval)])
    /\ IsTable(oldApprovals, Proposal, [requested : Seq(Level), provided : Seq(Level)])
    /\ \A p \in DOMAIN approvals :
         Len(approvals[p].requested) + Len(approvals[p].provided) <= MaxRequested
    /\ IsTable(invals, Account, 0 .. MaxSlot)
    /\ IsTable(sent, Proposal, Trx)
    /\ now \in 0 .. MaxSlot

\* Every open proposal has its approvals in exactly one of the two tables, and
\* neither table has a row left over: exec and cancel look for the row in one
\* and then the other, so a left-over row would lend its approvals to the next
\* proposal of that name.
OneApprovalsRow ==
    /\ DOMAIN approvals \cap DOMAIN oldApprovals = {}
    /\ DOMAIN approvals \cup DOMAIN oldApprovals = DOMAIN proposal

Count(levels, level) == Cardinality({i \in DOMAIN levels : levels[i] = level})

Asked(p, level) ==
    IF p \in DOMAIN approvals
    THEN Count(Levels(approvals[p].requested), level) + Count(Levels(approvals[p].provided), level)
    ELSE Count(oldApprovals[p].requested, level) + Count(oldApprovals[p].provided, level)

\* While a proposal is open the levels it asks for stay the same, however often
\* each approves and unapproves: none is lost, none can approve twice.
NoLevelIsLost ==
    [][\A p \in DOMAIN proposal \cap DOMAIN proposal', level \in Level :
          Asked(p, level)' = Asked(p, level)]_msigVars

\* eosio.msig keeps the promise of Consent: in particular approvals given before
\* an invalidation never count again, and no proposal runs twice.
Promise == INSTANCE Consent WITH
              open <- proposal,
              consent <- [p \in DOMAIN proposal |-> Standing(p)],
              recalled <- invals,
              Time <- 0 .. MaxSlot,
              running <- sent

KeepsPromise == Promise!Spec

=============================================================================
