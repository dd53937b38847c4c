-------------------------- MODULE EosioMsigProofs --------------------------
(***************************************************************************)
(* eosio.msig: its tables stay well formed, a proposal's approvals are in  *)
(* exactly one of two tables, no level of a proposal is lost, and the      *)
(* contract implements Consent.                                            *)
(***************************************************************************)
EXTENDS EosioMsig, FiniteSetTheorems, FunctionTheorems, SequenceTheorems, TableTheorems

-----------------------------------------------------------------------------
(* Lists. *)

\* vector::erase closes the gap.
LEMMA EraseList ==
  ASSUME NEW S, NEW s \in Seq(S), NEW i \in DOMAIN s
  PROVE  /\ Erase(s, i) \in Seq(S)
         /\ Len(Erase(s, i)) = Len(s) - 1
         /\ \A j \in 1 .. Len(s) - 1 :
               Erase(s, i)[j] = IF j < i THEN s[j] ELSE s[j + 1]
<1> DEFINE a == SubSeq(s, 1, i - 1)
           b == SubSeq(s, i + 1, Len(s))
<1>1. /\ Len(s) \in Nat /\ i \in 1 .. Len(s)
      /\ \A j \in 1 .. Len(s) : s[j] \in S
  BY LenProperties
<1>2. /\ a \in Seq(S) /\ Len(a) = i - 1
      /\ \A j \in 1 .. i - 1 : a[j] = s[j]
  <2>1. \A j \in 1 .. i - 1 : s[j] \in S
    BY <1>1
  <2> QED BY <1>1, <2>1, SubSeqProperties
<1>3. /\ b \in Seq(S) /\ Len(b) = Len(s) - i
      /\ \A j \in 1 .. Len(s) - i : b[j] = s[i + j]
  <2>1. \A j \in i + 1 .. Len(s) : s[j] \in S
    BY <1>1
  <2> QED BY <1>1, <2>1, SubSeqProperties
<1> HIDE DEF a, b
<1>4. /\ a \o b \in Seq(S)
      /\ Len(a \o b) = Len(a) + Len(b)
      /\ \A j \in 1 .. Len(a) + Len(b) :
            (a \o b)[j] = IF j <= Len(a) THEN a[j] ELSE b[j - Len(a)]
  BY <1>2, <1>3, ConcatProperties
<1>5. Len(a \o b) = Len(s) - 1
  BY <1>1, <1>2, <1>3, <1>4
<1>6. ASSUME NEW j \in 1 .. Len(s) - 1
      PROVE  (a \o b)[j] = IF j < i THEN s[j] ELSE s[j + 1]
  <2>1. CASE j < i
    BY <1>1, <1>2, <1>3, <1>4, <2>1
  <2>2. CASE ~(j < i)
    <3> DEFINE k == j - Len(a)
    <3>1. k \in 1 .. Len(s) - i /\ i + k = j + 1 /\ ~(j <= Len(a))
      BY <1>1, <1>2, <2>2
    <3>2. j \in 1 .. Len(a) + Len(b)
      BY <1>1, <1>2, <1>3
    <3>3. (a \o b)[j] = b[k]
      BY <1>4, <3>1, <3>2
    <3>4. b[k] = s[i + k]
      BY <1>3, <3>1
    <3> QED BY <2>2, <3>1, <3>3, <3>4
  <2> QED BY <2>1, <2>2
<1> QED BY <1>4, <1>5, <1>6 DEF Erase, a, b

\* The places of x in a list are finitely many.
LEMMA CountNat ==
  ASSUME NEW S, NEW s \in Seq(S), NEW x
  PROVE  /\ IsFiniteSet({j \in DOMAIN s : s[j] = x})
         /\ Count(s, x) \in Nat
<1>1. Len(s) \in Nat /\ DOMAIN s = 1 .. Len(s)
  BY LenProperties
<1>2. IsFiniteSet(DOMAIN s)
  BY <1>1, FS_Interval
<1>3. IsFiniteSet({j \in DOMAIN s : s[j] = x})
  BY <1>2, FS_Subset
<1> QED BY <1>3, FS_CardinalityType DEF Count

\* An entry that is appended counts once.
LEMMA CountAppend ==
  ASSUME NEW S, NEW s \in Seq(S), NEW e \in S, NEW x
  PROVE  Count(Append(s, e), x) = Count(s, x) + IF e = x THEN 1 ELSE 0
<1> DEFINE n == Len(s)
           t == Append(s, e)
           A == {j \in DOMAIN s : s[j] = x}
           B == {j \in DOMAIN t : t[j] = x}
<1>1. n \in Nat /\ DOMAIN s = 1 .. n
  BY LenProperties
<1>2. /\ t \in Seq(S) /\ Len(t) = n + 1
      /\ \A j \in 1 .. n : t[j] = s[j]
      /\ t[n + 1] = e
  BY AppendProperties
<1>3. DOMAIN t = 1 .. n + 1
  BY <1>2, LenProperties
<1>4. IsFiniteSet(A) /\ Cardinality(A) \in Nat
  BY CountNat, FS_CardinalityType
<1>5. n + 1 \notin A
  BY <1>1
<1>c. Count(s, x) = Cardinality(A) /\ Count(t, x) = Cardinality(B)
  BY DEF Count
<1> HIDE DEF n, t
<1>6. CASE e = x
  <2>1. B = A \cup {n + 1}
    BY <1>1, <1>2, <1>3, <1>6
  <2>2. Cardinality(A \cup {n + 1}) = Cardinality(A) + 1
    BY <1>4, <1>5, FS_AddElement
  <2> HIDE DEF A, B
  <2> QED BY <1>c, <1>6, <2>1, <2>2 DEF t
<1>7. CASE e # x
  <2>1. B = A
    BY <1>1, <1>2, <1>3, <1>7
  <2> HIDE DEF A, B
  <2> QED BY <1>c, <1>4, <1>7, <2>1 DEF t
<1> QED BY <1>6, <1>7

\* An entry that is erased no longer counts.
LEMMA CountErase ==
  ASSUME NEW S, NEW s \in Seq(S), NEW i \in DOMAIN s, NEW x
  PROVE  Count(Erase(s, i), x) = Count(s, x) - IF s[i] = x THEN 1 ELSE 0
<1> DEFINE t == Erase(s, i)
           A == {j \in DOMAIN s : s[j] = x}
           B == {j \in DOMAIN t : t[j] = x}
           f == [j \in B |-> IF j < i THEN j ELSE j + 1]
           n == Len(s)
<1>1. n \in Nat /\ DOMAIN s = 1 .. n /\ i \in 1 .. n
  BY LenProperties
<1>2. /\ t \in Seq(S) /\ Len(t) = n - 1
      /\ \A j \in 1 .. n - 1 : t[j] = IF j < i THEN s[j] ELSE s[j + 1]
  BY EraseList
<1>3. DOMAIN t = 1 .. n - 1
  BY <1>2, LenProperties
<1>4. IsFiniteSet(A) /\ IsFiniteSet(B) /\ Cardinality(A) \in Nat
  BY <1>2, CountNat, FS_CardinalityType
<1> HIDE DEF t, n
<1>5. f \in [B -> A \ {i}]
  BY <1>1, <1>2, <1>3
<1>6. \A j, k \in B : f[j] = f[k] => j = k
  BY <1>1, <1>3
<1>7. \A k \in A \ {i} : \E j \in B : f[j] = k
  <2> SUFFICES ASSUME NEW k \in A \ {i} PROVE \E j \in B : f[j] = k
    OBVIOUS
  <2>1. CASE k < i
    <3>1. k \in B
      BY <1>1, <1>2, <1>3, <2>1
    <3> QED BY <2>1, <3>1
  <2>2. CASE k > i
    <3>1. k - 1 \in B /\ ~(k - 1 < i) /\ (k - 1) + 1 = k
      BY <1>1, <1>2, <1>3, <2>2
    <3> QED BY <3>1
  <2> QED BY <1>1, <2>1, <2>2
<1> HIDE DEF A, B, f
<1>8. f \in Bijection(B, A \ {i})
  BY <1>5, <1>6, <1>7, Fun_IsBij
<1>9. ExistsBijection(B, A \ {i})
  BY <1>8 DEF ExistsBijection
<1>10. Cardinality(A \ {i}) = Cardinality(B)
  BY <1>4, <1>9, FS_Bijection
<1>11. Cardinality(A \ {i}) = IF i \in A THEN Cardinality(A) - 1 ELSE Cardinality(A)
  BY <1>4, FS_RemoveElement
<1>12. i \in A <=> s[i] = x
  BY DEF A
<1> QED BY <1>4, <1>10, <1>11, <1>12 DEF Count, A, B, t

\* The levels of a list of approvals: of the list with an entry appended, and
\* with one erased.
LEMMA LevelsOf ==
  ASSUME NEW s \in Seq(Approval)
  PROVE  /\ Levels(s) \in Seq(Level) /\ Len(Levels(s)) = Len(s)
         /\ \A e \in Approval : Levels(Append(s, e)) = Append(Levels(s), e.level)
         /\ \A i \in DOMAIN s : Levels(Erase(s, i)) = Erase(Levels(s), i)
<1> DEFINE n == Len(s)
<1>1. n \in Nat /\ DOMAIN s = 1 .. n /\ \A j \in 1 .. n : s[j] \in Approval
  BY LenProperties
<1>2. Levels(s) = [j \in 1 .. n |-> s[j].level] /\ \A j \in 1 .. n : s[j].level \in Level
  BY <1>1 DEF Levels, Approval
<1>3. Levels(s) \in [1 .. n -> Level]
  BY <1>2
<1>4. Levels(s) \in Seq(Level) /\ Len(Levels(s)) = n
  BY <1>1, <1>3
<1> HIDE DEF n
<1>5. ASSUME NEW e \in Approval PROVE Levels(Append(s, e)) = Append(Levels(s), e.level)
  <2>1. /\ Append(s, e) \in Seq(Approval) /\ Len(Append(s, e)) = n + 1
        /\ \A j \in 1 .. n : Append(s, e)[j] = s[j]
        /\ Append(s, e)[n + 1] = e
    BY AppendProperties DEF n
  <2>2. e.level \in Level
    BY DEF Approval
  <2>3. /\ Append(Levels(s), e.level) \in Seq(Level)
        /\ Len(Append(Levels(s), e.level)) = n + 1
        /\ \A j \in 1 .. n : Append(Levels(s), e.level)[j] = Levels(s)[j]
        /\ Append(Levels(s), e.level)[n + 1] = e.level
    BY <1>4, <2>2, AppendProperties
  <2>4. DOMAIN Append(s, e) = 1 .. n + 1
    BY <2>1, LenProperties
  <2>5. Append(Levels(s), e.level) \in [1 .. n + 1 -> Level]
    BY <2>3, LenProperties
  <2>6. Levels(Append(s, e)) = [j \in 1 .. n + 1 |-> Append(s, e)[j].level]
    BY <2>4 DEF Levels
  <2>7. \A j \in 1 .. n + 1 : Append(s, e)[j].level = Append(Levels(s), e.level)[j]
    BY <1>1, <1>2, <2>1, <2>3
  <2> QED BY <2>5, <2>6, <2>7
<1>6. ASSUME NEW i \in DOMAIN s PROVE Levels(Erase(s, i)) = Erase(Levels(s), i)
  <2>1. /\ Erase(s, i) \in Seq(Approval) /\ Len(Erase(s, i)) = n - 1
        /\ \A j \in 1 .. n - 1 : Erase(s, i)[j] = IF j < i THEN s[j] ELSE s[j + 1]
    BY EraseList DEF n
  <2>2. i \in DOMAIN Levels(s)
    BY <1>1, <1>2
  <2>3. /\ Erase(Levels(s), i) \in Seq(Level) /\ Len(Erase(Levels(s), i)) = n - 1
        /\ \A j \in 1 .. n - 1 :
              Erase(Levels(s), i)[j] = IF j < i THEN Levels(s)[j] ELSE Levels(s)[j + 1]
    BY <1>4, <2>2, EraseList
  <2>4. DOMAIN Erase(s, i) = 1 .. n - 1
    BY <2>1, LenProperties
  <2>5. Erase(Levels(s), i) \in [1 .. n - 1 -> Level]
    BY <2>3, LenProperties
  <2>6. Levels(Erase(s, i)) = [j \in 1 .. n - 1 |-> Erase(s, i)[j].level]
    BY <2>4 DEF Levels
  <2>7. ASSUME NEW j \in 1 .. n - 1
        PROVE  Erase(s, i)[j].level = Erase(Levels(s), i)[j]
    <3>1. i \in 1 .. n /\ j \in 1 .. n /\ j + 1 \in 1 .. n
      BY <1>1
    <3>2. CASE j < i
      BY <1>2, <2>1, <2>3, <3>1, <3>2
    <3>3. CASE ~(j < i)
      BY <1>2, <2>1, <2>3, <3>1, <3>3
    <3> QED BY <3>2, <3>3
  <2> QED BY <2>5, <2>6, <2>7
<1> QED BY <1>4, <1>5, <1>6 DEF n

-----------------------------------------------------------------------------
(* The inductive invariant. *)

\* An approval is as old as the slot it was given in: what Invalidate compares.
ApprovalsArePast ==
    \A p \in DOMAIN approvals :
        \A i \in DOMAIN approvals[p].provided : approvals[p].provided[i].time <= now

MsigInv == MsigTypeOK /\ OneApprovalsRow /\ ApprovalsArePast

NewRow == [requested : Seq(Approval), provided : Seq(Approval)]
OldRow == [requested : Seq(Level), provided : Seq(Level)]

\* The invariant holds in a fresh contract and in one with old proposals.
LEMMA MsigInitInv == MsigInit => MsigInv
<1> SUFFICES ASSUME MsigInit PROVE MsigInv
  OBVIOUS
<1>1. PICK P \in SUBSET Proposal : proposal \in [P -> Trx]
  BY DEF MsigInit
<1>2. Requests \subseteq Seq(Level)
  BY MsigAssumption DEF Requests
<1>3. oldApprovals \in [P -> [requested : Requests, provided : Requests]]
  BY <1>1 DEF MsigInit
<1>4. IsTable(proposal, Proposal, Trx) /\ IsTable(oldApprovals, Proposal, OldRow)
  BY <1>1, <1>2, <1>3 DEF IsTable, OldRow
<1>5. /\ approvals = NoRows /\ invals = NoRows /\ sent = NoRows
      /\ DOMAIN NoRows = {}
      /\ IsTable(NoRows, Proposal, NewRow) /\ IsTable(NoRows, Account, 0 .. MaxSlot)
      /\ IsTable(NoRows, Proposal, Trx)
  BY NoRowsTable DEF MsigInit
<1>6. now \in 0 .. MaxSlot
  BY MsigAssumption DEF MsigInit
<1>7. MsigTypeOK
  BY <1>4, <1>5, <1>6 DEF MsigTypeOK, NewRow, OldRow
<1>8. OneApprovalsRow
  BY <1>1, <1>3, <1>5 DEF OneApprovalsRow
<1>9. ApprovalsArePast
  BY <1>5 DEF ApprovalsArePast
<1> QED BY <1>7, <1>8, <1>9 DEF MsigInv

\* The tables as the invariant has them.
LEMMA MsigTables ==
  ASSUME MsigInv
  PROVE  /\ IsTable(proposal, Proposal, Trx)
         /\ IsTable(approvals, Proposal, NewRow)
         /\ IsTable(oldApprovals, Proposal, OldRow)
         /\ DOMAIN approvals \cap DOMAIN oldApprovals = {}
         /\ DOMAIN approvals \cup DOMAIN oldApprovals = DOMAIN proposal
         /\ now \in 0 .. MaxSlot /\ now \in Nat /\ MaxSlot \in Nat
BY MsigAssumption DEF MsigInv, MsigTypeOK, OneApprovalsRow, NewRow, OldRow

\* propose: the row of a name that no open proposal has.
LEMMA ProposeInv ==
  ASSUME MsigInv, NEW p \in Proposal, NEW requested \in Requests, NEW trx \in Trx,
         Propose(p, requested, trx)
  PROVE  MsigInv'
<1> DEFINE asked == [i \in DOMAIN requested |-> [level |-> requested[i], time |-> 0]]
           row == [requested |-> asked, provided |-> << >>]
<1>1. PICK n \in 0 .. MaxRequested : requested \in [1 .. n -> Level]
  BY DEF Requests
<1>2. asked \in [1 .. n -> Approval]
  BY <1>1, MsigAssumption DEF Approval
<1>3. asked \in Seq(Approval) /\ Len(asked) = n /\ n \in Nat
  BY <1>2, MsigAssumption
<1>4. << >> \in Seq(Approval) /\ Len(<< >>) = 0 /\ DOMAIN << >> = {}
  BY EmptySeq
<1>5. row \in NewRow /\ row.requested = asked /\ row.provided = << >>
  BY <1>3, <1>4 DEF NewRow
<1>6. /\ p \notin DOMAIN proposal /\ proposal' = Put(proposal, p, trx)
      /\ p \notin DOMAIN approvals /\ approvals' = Put(approvals, p, row)
      /\ UNCHANGED <<oldApprovals, invals, sent, now>>
  BY DEF Propose
<1> HIDE DEF asked, row
<1>7. /\ Written(proposal, proposal', Proposal, Trx, p, trx)
      /\ Written(approvals, approvals', Proposal, NewRow, p, row)
  BY <1>5, <1>6, MsigTables, PutTable
<1>8. ASSUME NEW q \in DOMAIN approvals'
      PROVE  Len(approvals'[q].requested) + Len(approvals'[q].provided) <= MaxRequested
  <2>1. CASE q = p
    <3>1. approvals'[q].requested = asked /\ approvals'[q].provided = << >>
      BY <1>5, <1>7, <2>1 DEF Written
    <3>2. n <= MaxRequested /\ n + 0 = n
      BY <1>1, <1>3, MsigAssumption
    <3> QED BY <1>3, <1>4, <3>1, <3>2
  <2>2. CASE q # p
    BY <1>7, <2>2 DEF MsigInv, MsigTypeOK, Written
  <2> QED BY <2>1, <2>2
<1>9. MsigTypeOK'
  BY <1>6, <1>7, <1>8 DEF MsigInv, MsigTypeOK, Written, NewRow
<1>10. OneApprovalsRow'
  BY <1>6, <1>7 DEF MsigInv, OneApprovalsRow, Written
<1>11. ApprovalsArePast'
  BY <1>4, <1>5, <1>6, <1>7 DEF MsigInv, ApprovalsArePast, Written
<1> QED BY <1>9, <1>10, <1>11 DEF MsigInv

\* Writing p's row in approvals2 keeps the invariant, if the row is no longer
\* than before and has no approval of the future.
LEMMA NewRowInv ==
  ASSUME MsigInv, NEW p \in DOMAIN approvals, NEW row \in NewRow,
         Len(row.requested) + Len(row.provided)
            = Len(approvals[p].requested) + Len(approvals[p].provided),
         \A i \in DOMAIN row.provided : row.provided[i].time <= now,
         approvals' = [approvals EXCEPT ![p] = row],
         UNCHANGED <<proposal, oldApprovals, invals, sent, now>>
  PROVE  MsigInv'
<1>1. /\ IsTable(approvals', Proposal, NewRow) /\ DOMAIN approvals' = DOMAIN approvals
      /\ approvals'[p] = row
      /\ \A q \in DOMAIN approvals \ {p} : approvals'[q] = approvals[q]
  BY MsigTables DEF IsTable
<1>2. \A q \in DOMAIN approvals' :
         Len(approvals'[q].requested) + Len(approvals'[q].provided) <= MaxRequested
  BY <1>1 DEF MsigInv, MsigTypeOK
<1>3. MsigTypeOK'
  BY <1>1, <1>2 DEF MsigInv, MsigTypeOK, NewRow
<1>4. OneApprovalsRow'
  BY <1>1 DEF MsigInv, OneApprovalsRow
<1>5. ApprovalsArePast'
  BY <1>1 DEF MsigInv, ApprovalsArePast
<1> QED BY <1>3, <1>4, <1>5 DEF MsigInv

\* So does writing p's row in the old approvals table.
LEMMA OldRowInv ==
  ASSUME MsigInv, NEW p \in DOMAIN oldApprovals, NEW row \in OldRow,
         oldApprovals' = [oldApprovals EXCEPT ![p] = row],
         UNCHANGED <<proposal, approvals, invals, sent, now>>
  PROVE  MsigInv'
<1>1. IsTable(oldApprovals', Proposal, OldRow) /\ DOMAIN oldApprovals' = DOMAIN oldApprovals
  BY MsigTables DEF IsTable
<1>2. MsigTypeOK'
  BY <1>1 DEF MsigInv, MsigTypeOK, OldRow
<1>3. OneApprovalsRow' /\ ApprovalsArePast'
  BY <1>1 DEF MsigInv, OneApprovalsRow, ApprovalsArePast
<1> QED BY <1>2, <1>3 DEF MsigInv

\* An entry moved from one list to the end of another: both stay lists, and no
\* entry is lost.
LEMMA MoveEntry ==
  ASSUME NEW S, NEW from \in Seq(S), NEW to \in Seq(S), NEW i \in DOMAIN from, NEW e \in S
  PROVE  /\ Erase(from, i) \in Seq(S) /\ Append(to, e) \in Seq(S)
         /\ Len(Erase(from, i)) + Len(Append(to, e)) = Len(from) + Len(to)
         /\ \A j \in DOMAIN Erase(from, i) : \E k \in DOMAIN from : Erase(from, i)[j] = from[k]
         /\ \A j \in DOMAIN Append(to, e) :
               \/ Append(to, e)[j] = e
               \/ j \in DOMAIN to /\ Append(to, e)[j] = to[j]
<1>1. /\ Len(from) \in Nat /\ DOMAIN from = 1 .. Len(from)
      /\ Len(to) \in Nat /\ DOMAIN to = 1 .. Len(to)
  BY LenProperties
<1>2. /\ Erase(from, i) \in Seq(S) /\ Len(Erase(from, i)) = Len(from) - 1
      /\ \A j \in 1 .. Len(from) - 1 :
            Erase(from, i)[j] = IF j < i THEN from[j] ELSE from[j + 1]
  BY EraseList
<1>3. /\ Append(to, e) \in Seq(S) /\ Len(Append(to, e)) = Len(to) + 1
      /\ \A j \in 1 .. Len(to) : Append(to, e)[j] = to[j]
      /\ Append(to, e)[Len(to) + 1] = e
  BY AppendProperties
<1>4. DOMAIN Erase(from, i) = 1 .. Len(from) - 1 /\ DOMAIN Append(to, e) = 1 .. Len(to) + 1
  BY <1>2, <1>3, LenProperties
<1>5. \A j \in DOMAIN Erase(from, i) : \E k \in DOMAIN from : Erase(from, i)[j] = from[k]
  <2> SUFFICES ASSUME NEW j \in 1 .. Len(from) - 1
               PROVE  \E k \in 1 .. Len(from) : Erase(from, i)[j] = from[k]
    BY <1>1, <1>4
  <2>1. j \in 1 .. Len(from) /\ j + 1 \in 1 .. Len(from)
    BY <1>1
  <2> QED BY <1>2, <2>1
<1>6. \A j \in DOMAIN Append(to, e) :
        \/ Append(to, e)[j] = e
        \/ j \in DOMAIN to /\ Append(to, e)[j] = to[j]
  BY <1>1, <1>3, <1>4
<1> QED BY <1>1, <1>2, <1>3, <1>5, <1>6

\* approve: an entry of requested becomes one of provided, of this slot.
LEMMA ApproveInv ==
  ASSUME MsigInv, NEW p \in Proposal, NEW level \in Level, NEW hash, Approve(p, level, hash)
  PROVE  MsigInv'
<1>1. UNCHANGED <<proposal, invals, sent, now>>
  BY DEF Approve
<1>2. CASE p \in DOMAIN approvals
  <2> DEFINE row == approvals[p]
             e == [level |-> level, time |-> now]
  <2>1. PICK i \in DOMAIN row.requested :
          approvals' = [approvals EXCEPT ![p] = [requested |-> Erase(row.requested, i),
                                                 provided |-> Append(row.provided, e)]]
    BY <1>2 DEF Approve
  <2>2. UNCHANGED oldApprovals
    BY <1>2 DEF Approve
  <2>3. row \in NewRow /\ e \in Approval /\ e.time = now
    BY <1>2, MsigTables DEF IsTable, Approval
  <2>4. row.requested \in Seq(Approval) /\ row.provided \in Seq(Approval)
    BY <2>3 DEF NewRow
  <2>5. \A j \in DOMAIN row.provided : row.provided[j].time <= now
    BY <1>2 DEF MsigInv, ApprovalsArePast
  <2> DEFINE new == [requested |-> Erase(row.requested, i), provided |-> Append(row.provided, e)]
             from == row.requested
             to == row.provided
  <2> HIDE DEF row, e
  <2>a. from \in Seq(Approval) /\ to \in Seq(Approval) /\ i \in DOMAIN from /\ e \in Approval
    BY <2>1, <2>3, <2>4
  <2> HIDE DEF from, to
  <2>b. /\ Erase(from, i) \in Seq(Approval) /\ Append(to, e) \in Seq(Approval)
        /\ Len(Erase(from, i)) + Len(Append(to, e)) = Len(from) + Len(to)
        /\ \A j \in DOMAIN Append(to, e) :
              \/ Append(to, e)[j] = e
              \/ j \in DOMAIN to /\ Append(to, e)[j] = to[j]
    BY <2>a, MoveEntry
  <2>6. /\ Erase(row.requested, i) \in Seq(Approval) /\ Append(row.provided, e) \in Seq(Approval)
        /\ Len(Erase(row.requested, i)) + Len(Append(row.provided, e))
              = Len(row.requested) + Len(row.provided)
        /\ \A j \in DOMAIN Append(row.provided, e) :
              \/ Append(row.provided, e)[j] = e
              \/ j \in DOMAIN row.provided /\ Append(row.provided, e)[j] = row.provided[j]
    BY <2>b DEF from, to
  <2>7. new \in NewRow
    BY <2>6 DEF NewRow
  <2>8. \A j \in DOMAIN new.provided : new.provided[j].time <= now
    BY <2>3, <2>5, <2>6, MsigTables
  <2>9. /\ Len(new.requested) + Len(new.provided)
             = Len(approvals[p].requested) + Len(approvals[p].provided)
        /\ approvals' = [approvals EXCEPT ![p] = new]
    BY <2>1, <2>6 DEF row
  <2> HIDE DEF new
  <2> QED BY <1>1, <1>2, <2>2, <2>7, <2>8, <2>9, NewRowInv
<1>3. CASE p \notin DOMAIN approvals
  <2> DEFINE row == oldApprovals[p]
  <2>1. p \in DOMAIN oldApprovals /\ UNCHANGED approvals
    BY <1>3 DEF Approve
  <2>2. PICK i \in DOMAIN row.requested :
          oldApprovals' = [oldApprovals EXCEPT ![p] = [requested |-> Erase(row.requested, i),
                                                       provided |-> Append(row.provided, level)]]
    BY <1>3 DEF Approve
  <2>3. row \in OldRow
    BY <2>1, MsigTables DEF IsTable
  <2> DEFINE new == [requested |-> Erase(row.requested, i), provided |-> Append(row.provided, level)]
  <2> HIDE DEF row
  <2>4. new \in OldRow
    BY <2>2, <2>3, MoveEntry DEF OldRow
  <2>5. oldApprovals' = [oldApprovals EXCEPT ![p] = new]
    BY <2>2
  <2> HIDE DEF new
  <2> QED BY <1>1, <2>1, <2>4, <2>5, OldRowInv
<1> QED BY <1>2, <1>3

\* unapprove: an entry of provided becomes one of requested again.
LEMMA UnapproveInv ==
  ASSUME MsigInv, NEW p \in Proposal, NEW level \in Level, Unapprove(p, level)
  PROVE  MsigInv'
<1>1. UNCHANGED <<proposal, invals, sent, now>>
  BY DEF Unapprove
<1>2. CASE p \in DOMAIN approvals
  <2> DEFINE row == approvals[p]
             e == [level |-> level, time |-> now]
  <2>1. PICK i \in DOMAIN row.provided :
          approvals' = [approvals EXCEPT ![p] = [requested |-> Append(row.requested, e),
                                                 provided |-> Erase(row.provided, i)]]
    BY <1>2 DEF Unapprove
  <2>2. UNCHANGED oldApprovals
    BY <1>2 DEF Unapprove
  <2>3. row \in NewRow /\ e \in Approval
    BY <1>2, MsigTables DEF IsTable, Approval
  <2>4. /\ row.requested \in Seq(Approval) /\ row.provided \in Seq(Approval)
        /\ Len(row.requested) \in Nat /\ Len(row.provided) \in Nat
    BY <2>3, LenProperties DEF NewRow
  <2>5. \A j \in DOMAIN row.provided : row.provided[j].time <= now
    BY <1>2 DEF MsigInv, ApprovalsArePast
  <2> DEFINE new == [requested |-> Append(row.requested, e), provided |-> Erase(row.provided, i)]
             from == row.provided
             to == row.requested
  <2> HIDE DEF row, e
  <2>a. from \in Seq(Approval) /\ to \in Seq(Approval) /\ i \in DOMAIN from /\ e \in Approval
    BY <2>1, <2>3, <2>4
  <2> HIDE DEF from, to
  <2>b. /\ Erase(from, i) \in Seq(Approval) /\ Append(to, e) \in Seq(Approval)
        /\ Len(Erase(from, i)) + Len(Append(to, e)) = Len(from) + Len(to)
        /\ \A j \in DOMAIN Erase(from, i) : \E k \in DOMAIN from : Erase(from, i)[j] = from[k]
    BY <2>a, MoveEntry
  <2>6. /\ Erase(row.provided, i) \in Seq(Approval) /\ Append(row.requested, e) \in Seq(Approval)
        /\ Len(Erase(row.provided, i)) + Len(Append(row.requested, e))
              = Len(row.provided) + Len(row.requested)
        /\ \A j \in DOMAIN Erase(row.provided, i) :
              \E k \in DOMAIN row.provided : Erase(row.provided, i)[j] = row.provided[k]
    BY <2>b DEF from, to
  <2>7. new \in NewRow
    BY <2>6 DEF NewRow
  <2>8. \A j \in DOMAIN new.provided : new.provided[j].time <= now
    BY <2>5, <2>6
  <2>9. /\ Len(new.requested) \in Nat /\ Len(new.provided) \in Nat
        /\ Len(new.provided) + Len(new.requested)
             = Len(approvals[p].provided) + Len(approvals[p].requested)
        /\ approvals' = [approvals EXCEPT ![p] = new]
    BY <2>1, <2>6, LenProperties DEF row
  <2> HIDE DEF new
  <2>10. Len(new.requested) + Len(new.provided)
            = Len(approvals[p].requested) + Len(approvals[p].provided)
    <3> DEFINE a == Len(new.requested)
               b == Len(new.provided)
               c == Len(approvals[p].requested)
               d == Len(approvals[p].provided)
    <3>1. c \in Nat /\ d \in Nat
      BY <2>4 DEF row
    <3>2. a \in Nat /\ b \in Nat /\ b + a = d + c
      BY <2>9
    <3> HIDE DEF a, b, c, d
    <3>3. a + b = c + d
      BY <3>1, <3>2
    <3> QED BY <3>3 DEF a, b, c, d
  <2> QED BY <1>1, <1>2, <2>2, <2>7, <2>8, <2>9, <2>10, NewRowInv
<1>3. CASE p \notin DOMAIN approvals
  <2> DEFINE row == oldApprovals[p]
  <2>1. p \in DOMAIN oldApprovals /\ UNCHANGED approvals
    BY <1>3 DEF Unapprove
  <2>2. PICK i \in DOMAIN row.provided :
          oldApprovals' = [oldApprovals EXCEPT ![p] = [requested |-> Append(row.requested, level),
                                                       provided |-> Erase(row.provided, i)]]
    BY <1>3 DEF Unapprove
  <2>3. row \in OldRow
    BY <2>1, MsigTables DEF IsTable
  <2> DEFINE new == [requested |-> Append(row.requested, level), provided |-> Erase(row.provided, i)]
  <2> HIDE DEF row
  <2>4. new \in OldRow
    BY <2>2, <2>3, MoveEntry DEF OldRow
  <2>5. oldApprovals' = [oldApprovals EXCEPT ![p] = new]
    BY <2>2
  <2> HIDE DEF new
  <2> QED BY <1>1, <2>1, <2>4, <2>5, OldRowInv
<1> QED BY <1>2, <1>3

\* cancel and exec: the proposal goes, and its approvals with it.
LEMMA CloseInv ==
  ASSUME MsigInv, NEW p \in DOMAIN proposal, proposal' = Drop(proposal, p), EraseApprovals(p),
         IsTable(sent', Proposal, Trx), UNCHANGED <<invals, now>>
  PROVE  MsigInv'
<1>a. /\ IsTable(proposal, Proposal, Trx)
      /\ IsTable(approvals, Proposal, NewRow)
      /\ IsTable(oldApprovals, Proposal, OldRow)
      /\ DOMAIN approvals \cap DOMAIN oldApprovals = {}
  BY MsigTables
<1>1. Removed(proposal, proposal', Proposal, Trx, p)
  BY <1>a, DropTable
<1>2. Removed(approvals, Drop(approvals, p), Proposal, NewRow, p)
  BY <1>a, DropTable
<1>b. Removed(oldApprovals, Drop(oldApprovals, p), Proposal, OldRow, p)
  BY <1>a, DropTable
<1>3. /\ IsTable(approvals', Proposal, NewRow)
      /\ DOMAIN approvals' = DOMAIN approvals \ {p}
      /\ \A x \in DOMAIN approvals \ {p} : approvals'[x] = approvals[x]
      /\ IsTable(oldApprovals', Proposal, OldRow)
      /\ DOMAIN oldApprovals' = DOMAIN oldApprovals \ {p}
  BY <1>a, <1>2, <1>b DEF EraseApprovals, Removed
<1>4. \A q \in DOMAIN approvals' :
         Len(approvals'[q].requested) + Len(approvals'[q].provided) <= MaxRequested
  BY <1>3 DEF MsigInv, MsigTypeOK
<1>5. MsigTypeOK'
  BY <1>1, <1>3, <1>4 DEF MsigInv, MsigTypeOK, NewRow, OldRow, Removed
<1>6. OneApprovalsRow'
  BY <1>1, <1>3 DEF MsigInv, OneApprovalsRow, Removed
<1>7. ApprovalsArePast'
  BY <1>3 DEF MsigInv, ApprovalsArePast
<1> QED BY <1>5, <1>6, <1>7 DEF MsigInv

\* Every step keeps the invariant.
LEMMA MsigNextInv == MsigInv /\ [MsigNext]_msigVars => MsigInv'
<1> SUFFICES ASSUME MsigInv, [MsigNext]_msigVars PROVE MsigInv'
  OBVIOUS
<1>1. ASSUME NEW p \in Proposal, NEW requested \in Requests, NEW trx \in Trx,
             Propose(p, requested, trx)
      PROVE  MsigInv'
  BY <1>1, ProposeInv
<1>2. ASSUME NEW p \in Proposal, NEW level \in Level, NEW hash, Approve(p, level, hash)
      PROVE  MsigInv'
  BY <1>2, ApproveInv
<1>3. ASSUME NEW p \in Proposal, NEW level \in Level, Unapprove(p, level) PROVE MsigInv'
  BY <1>3, UnapproveInv
<1>4. ASSUME NEW p \in Proposal, NEW canceler \in Account, Cancel(p, canceler) PROVE MsigInv'
  <2>1. /\ p \in DOMAIN proposal /\ proposal' = Drop(proposal, p) /\ EraseApprovals(p)
        /\ UNCHANGED <<invals, sent, now>>
    BY <1>4 DEF Cancel
  <2>2. IsTable(sent', Proposal, Trx)
    BY <2>1 DEF MsigInv, MsigTypeOK
  <2> QED BY <2>1, <2>2, CloseInv
<1>5. ASSUME NEW p \in Proposal, Exec(p) PROVE MsigInv'
  <2>1. /\ p \in DOMAIN proposal /\ proposal' = Drop(proposal, p) /\ EraseApprovals(p)
        /\ UNCHANGED <<invals, now>> /\ sent' = Put(sent, p, proposal[p])
    BY <1>5 DEF Exec
  <2>2. proposal[p] \in Trx
    BY <2>1, MsigTables DEF IsTable
  <2>3. IsTable(sent', Proposal, Trx)
    BY <2>1, <2>2, PutTable DEF MsigInv, MsigTypeOK, Written
  <2> QED BY <2>1, <2>3, CloseInv
<1>6. ASSUME NEW p \in Proposal, RunDeferred(p) PROVE MsigInv'
  <2>1. IsTable(sent', Proposal, Trx)
    BY <1>6, DropTable DEF RunDeferred, MsigInv, MsigTypeOK, Removed
  <2> QED BY <1>6, <2>1 DEF RunDeferred, MsigInv, MsigTypeOK, OneApprovalsRow, ApprovalsArePast
<1>7. ASSUME NEW account \in Account, Invalidate(account) PROVE MsigInv'
  <2>1. IsTable(invals', Account, 0 .. MaxSlot)
    BY <1>7, PutTable DEF Invalidate, MsigInv, MsigTypeOK, Written
  <2> QED BY <1>7, <2>1 DEF Invalidate, MsigInv, MsigTypeOK, OneApprovalsRow, ApprovalsArePast
<1>8. CASE NextSlot
  <2>1. now' \in 0 .. MaxSlot /\ now <= now'
    BY <1>8, MsigTables DEF NextSlot
  <2>2. ApprovalsArePast'
    <3> SUFFICES ASSUME NEW p \in DOMAIN approvals, NEW i \in DOMAIN approvals[p].provided
                 PROVE  approvals[p].provided[i].time <= now'
      BY <1>8 DEF NextSlot, ApprovalsArePast
    <3>1. approvals[p].provided[i].time <= now
      BY DEF MsigInv, ApprovalsArePast
    <3>2. approvals[p] \in NewRow
      BY MsigTables DEF IsTable
    <3>3. approvals[p].provided \in Seq(Approval)
      BY <3>2 DEF NewRow
    <3>4. approvals[p].provided[i] \in Approval
      BY <3>3, LenProperties
    <3>5. approvals[p].provided[i].time \in 0 .. MaxSlot
      BY <3>4 DEF Approval
    <3> QED BY <2>1, <3>1, <3>5, MsigTables
  <2> QED BY <1>8, <2>1, <2>2 DEF NextSlot, MsigInv, MsigTypeOK, OneApprovalsRow
<1>9. CASE UNCHANGED msigVars
  BY <1>9 DEF msigVars, MsigInv, MsigTypeOK, OneApprovalsRow, ApprovalsArePast
<1> QED BY <1>1, <1>2, <1>3, <1>4, <1>5, <1>6, <1>7, <1>8, <1>9 DEF MsigNext

\* The tables of eosio.msig are well formed in every reachable state, and no
\* proposal's lists ever grow beyond what was proposed.
THEOREM MsigTypeCorrect == MsigSpec => []MsigTypeOK
<1>1. MsigInv => MsigTypeOK
  BY DEF MsigInv
<1> QED BY MsigInitInv, MsigNextInv, <1>1, PTL DEF MsigSpec

\* Every open proposal has its approvals in exactly one of the two tables, and
\* neither table has a row left over.
THEOREM ApprovalsRowUnique == MsigSpec => []OneApprovalsRow
<1>1. MsigInv => OneApprovalsRow
  BY DEF MsigInv
<1> QED BY MsigInitInv, MsigNextInv, <1>1, PTL DEF MsigSpec

-----------------------------------------------------------------------------
(* The levels of a proposal. *)

\* Moving an entry from one list to another keeps the count of every level.
LEMMA CountMoved ==
  ASSUME NEW S, NEW from \in Seq(S), NEW to \in Seq(S), NEW i \in DOMAIN from, NEW x
  PROVE  /\ Count(Erase(from, i), x) + Count(Append(to, from[i]), x) = Count(from, x) + Count(to, x)
         /\ Count(Append(to, from[i]), x) + Count(Erase(from, i), x) = Count(to, x) + Count(from, x)
<1>1. from[i] \in S
  BY LenProperties
<1>2. Count(Erase(from, i), x) = Count(from, x) - IF from[i] = x THEN 1 ELSE 0
  BY CountErase
<1>3. Count(Append(to, from[i]), x) = Count(to, x) + IF from[i] = x THEN 1 ELSE 0
  BY <1>1, CountAppend
<1>4. Count(from, x) \in Nat /\ Count(to, x) \in Nat
  BY CountNat
<1> QED BY <1>2, <1>3, <1>4

\* The same, for the levels of lists of approvals.
LEMMA LevelMoved ==
  ASSUME NEW from \in Seq(Approval), NEW to \in Seq(Approval), NEW i \in DOMAIN from,
         NEW e \in Approval, e.level = from[i].level, NEW x
  PROVE  /\ Count(Levels(Erase(from, i)), x) + Count(Levels(Append(to, e)), x)
               = Count(Levels(from), x) + Count(Levels(to), x)
         /\ Count(Levels(Append(to, e)), x) + Count(Levels(Erase(from, i)), x)
               = Count(Levels(to), x) + Count(Levels(from), x)
<1> DEFINE f == Levels(from)
           t == Levels(to)
<1>1. /\ f \in Seq(Level) /\ t \in Seq(Level)
      /\ Levels(Erase(from, i)) = Erase(f, i)
      /\ Levels(Append(to, e)) = Append(t, e.level)
  BY LevelsOf
<1>2. i \in DOMAIN f /\ f[i] = e.level
  BY DEF Levels
<1> HIDE DEF f, t
<1>3. /\ Count(Erase(f, i), x) + Count(Append(t, f[i]), x) = Count(f, x) + Count(t, x)
      /\ Count(Append(t, f[i]), x) + Count(Erase(f, i), x) = Count(t, x) + Count(f, x)
  BY <1>1, <1>2, CountMoved
<1> QED BY <1>1, <1>2, <1>3 DEF f, t

\* A proposal whose row stays asks for what it asked for.
LEMMA AskedSame ==
  ASSUME NEW p, NEW level,
         p \in DOMAIN approvals' <=> p \in DOMAIN approvals,
         p \in DOMAIN approvals => approvals'[p] = approvals[p],
         p \notin DOMAIN approvals => oldApprovals'[p] = oldApprovals[p]
  PROVE  Asked(p, level)' = Asked(p, level)
BY DEF Asked

\* approve moves a level.
LEMMA ApproveKeepsLevels ==
  ASSUME MsigInv, NEW q \in Proposal, NEW l \in Level, NEW hash, Approve(q, l, hash),
         NEW p \in DOMAIN proposal, NEW level \in Level
  PROVE  Asked(p, level)' = Asked(p, level)
<1>1. CASE q \in DOMAIN approvals
  <2> DEFINE from == approvals[q].requested
             to == approvals[q].provided
             e == [level |-> l, time |-> now]
             new(i) == [requested |-> Erase(from, i), provided |-> Append(to, e)]
  <2>1. PICK i \in DOMAIN from :
          IsFirst(Levels(from), i, l) /\ approvals' = [approvals EXCEPT ![q] = new(i)]
    BY <1>1 DEF Approve
  <2>2. UNCHANGED oldApprovals
    BY <1>1 DEF Approve
  <2>3. approvals[q] \in NewRow /\ e \in Approval
    BY <1>1, MsigTables DEF IsTable, Approval
  <2>4. from \in Seq(Approval) /\ to \in Seq(Approval)
    BY <2>3 DEF NewRow
  <2>5. e.level = from[i].level
    BY <2>1 DEF IsFirst, Levels
  <2>6. /\ DOMAIN approvals' = DOMAIN approvals
        /\ approvals'[q].requested = Erase(from, i) /\ approvals'[q].provided = Append(to, e)
        /\ \A x \in DOMAIN approvals \ {q} : approvals'[x] = approvals[x]
    BY <1>1, <2>1, MsigTables DEF IsTable
  <2> HIDE DEF e
  <2>7. CASE p = q
    <3>1. Asked(p, level) = Count(Levels(from), level) + Count(Levels(to), level)
      BY <1>1, <2>7 DEF Asked
    <3>2. Asked(p, level)' = Count(Levels(Erase(from, i)), level) + Count(Levels(Append(to, e)), level)
      BY <1>1, <2>6, <2>7 DEF Asked
    <3> HIDE DEF from, to
    <3> QED BY <2>1, <2>3, <2>4, <2>5, <3>1, <3>2, LevelMoved
  <2>8. CASE p # q
    BY <2>2, <2>6, <2>8, AskedSame
  <2> QED BY <2>7, <2>8
<1>2. CASE q \notin DOMAIN approvals
  <2> DEFINE from == oldApprovals[q].requested
             to == oldApprovals[q].provided
             new(i) == [requested |-> Erase(from, i), provided |-> Append(to, l)]
  <2>1. PICK i \in DOMAIN from :
          IsFirst(from, i, l) /\ oldApprovals' = [oldApprovals EXCEPT ![q] = new(i)]
    BY <1>2 DEF Approve
  <2>2. UNCHANGED approvals /\ q \in DOMAIN oldApprovals
    BY <1>2 DEF Approve
  <2>3. oldApprovals[q] \in OldRow
    BY <2>2, MsigTables DEF IsTable
  <2>4. from \in Seq(Level) /\ to \in Seq(Level) /\ from[i] = l
    BY <2>1, <2>3 DEF OldRow, IsFirst
  <2>5. /\ oldApprovals'[q].requested = Erase(from, i) /\ oldApprovals'[q].provided = Append(to, l)
        /\ \A x \in DOMAIN oldApprovals \ {q} : oldApprovals'[x] = oldApprovals[x]
    BY <2>1, <2>2, MsigTables DEF IsTable
  <2>6. CASE p = q
    <3>1. Asked(p, level) = Count(from, level) + Count(to, level)
      BY <1>2, <2>6 DEF Asked
    <3>2. Asked(p, level)' = Count(Erase(from, i), level) + Count(Append(to, l), level)
      BY <1>2, <2>2, <2>5, <2>6 DEF Asked
    <3> HIDE DEF from, to
    <3> QED BY <2>1, <2>4, <3>1, <3>2, CountMoved
  <2>7. CASE p # q
    <3>1. p \notin DOMAIN approvals => p \in DOMAIN oldApprovals
      BY MsigTables
    <3> QED BY <2>2, <2>5, <2>7, <3>1, AskedSame
  <2> QED BY <2>6, <2>7
<1> QED BY <1>1, <1>2

\* unapprove moves it back.
LEMMA UnapproveKeepsLevels ==
  ASSUME MsigInv, NEW q \in Proposal, NEW l \in Level, Unapprove(q, l),
         NEW p \in DOMAIN proposal, NEW level \in Level
  PROVE  Asked(p, level)' = Asked(p, level)
<1>1. CASE q \in DOMAIN approvals
  <2> DEFINE from == approvals[q].provided
             to == approvals[q].requested
             e == [level |-> l, time |-> now]
             new(i) == [requested |-> Append(to, e), provided |-> Erase(from, i)]
  <2>1. PICK i \in DOMAIN from :
          IsFirst(Levels(from), i, l) /\ approvals' = [approvals EXCEPT ![q] = new(i)]
    BY <1>1 DEF Unapprove
  <2>2. UNCHANGED oldApprovals
    BY <1>1 DEF Unapprove
  <2>3. approvals[q] \in NewRow /\ e \in Approval
    BY <1>1, MsigTables DEF IsTable, Approval
  <2>4. from \in Seq(Approval) /\ to \in Seq(Approval)
    BY <2>3 DEF NewRow
  <2>5. e.level = from[i].level
    BY <2>1 DEF IsFirst, Levels
  <2>6. /\ DOMAIN approvals' = DOMAIN approvals
        /\ approvals'[q].requested = Append(to, e) /\ approvals'[q].provided = Erase(from, i)
        /\ \A x \in DOMAIN approvals \ {q} : approvals'[x] = approvals[x]
    BY <1>1, <2>1, MsigTables DEF IsTable
  <2> HIDE DEF e
  <2>7. CASE p = q
    <3>1. Asked(p, level) = Count(Levels(to), level) + Count(Levels(from), level)
      BY <1>1, <2>7 DEF Asked
    <3>2. Asked(p, level)' = Count(Levels(Append(to, e)), level) + Count(Levels(Erase(from, i)), level)
      BY <1>1, <2>6, <2>7 DEF Asked
    <3> HIDE DEF from, to
    <3> QED BY <2>1, <2>3, <2>4, <2>5, <3>1, <3>2, LevelMoved
  <2>8. CASE p # q
    BY <2>2, <2>6, <2>8, AskedSame
  <2> QED BY <2>7, <2>8
<1>2. CASE q \notin DOMAIN approvals
  <2> DEFINE from == oldApprovals[q].provided
             to == oldApprovals[q].requested
             new(i) == [requested |-> Append(to, l), provided |-> Erase(from, i)]
  <2>1. PICK i \in DOMAIN from :
          IsFirst(from, i, l) /\ oldApprovals' = [oldApprovals EXCEPT ![q] = new(i)]
    BY <1>2 DEF Unapprove
  <2>2. UNCHANGED approvals /\ q \in DOMAIN oldApprovals
    BY <1>2 DEF Unapprove
  <2>3. oldApprovals[q] \in OldRow
    BY <2>2, MsigTables DEF IsTable
  <2>4. from \in Seq(Level) /\ to \in Seq(Level) /\ from[i] = l
    BY <2>1, <2>3 DEF OldRow, IsFirst
  <2>5. /\ oldApprovals'[q].requested = Append(to, l) /\ oldApprovals'[q].provided = Erase(from, i)
        /\ \A x \in DOMAIN oldApprovals \ {q} : oldApprovals'[x] = oldApprovals[x]
    BY <2>1, <2>2, MsigTables DEF IsTable
  <2>6. CASE p = q
    <3>1. Asked(p, level) = Count(to, level) + Count(from, level)
      BY <1>2, <2>6 DEF Asked
    <3>2. Asked(p, level)' = Count(Append(to, l), level) + Count(Erase(from, i), level)
      BY <1>2, <2>2, <2>5, <2>6 DEF Asked
    <3> HIDE DEF from, to
    <3> QED BY <2>1, <2>4, <3>1, <3>2, CountMoved
  <2>7. CASE p # q
    <3>1. p \notin DOMAIN approvals => p \in DOMAIN oldApprovals
      BY MsigTables
    <3> QED BY <2>2, <2>5, <2>7, <3>1, AskedSame
  <2> QED BY <2>6, <2>7
<1> QED BY <1>1, <1>2

\* While a proposal is open the levels it asks for stay the same.
THEOREM LevelsKept == MsigSpec => NoLevelIsLost
<1> DEFINE Kept == \A p \in DOMAIN proposal \cap DOMAIN proposal', level \in Level :
                      Asked(p, level)' = Asked(p, level)
<1>1. ASSUME MsigInv, [MsigNext]_msigVars PROVE Kept
  <2> SUFFICES ASSUME NEW p \in DOMAIN proposal \cap DOMAIN proposal', NEW level \in Level
               PROVE  Asked(p, level)' = Asked(p, level)
    OBVIOUS
  <2>0. p \notin DOMAIN approvals => p \in DOMAIN oldApprovals
    BY <1>1, MsigTables
  <2>1. ASSUME NEW q \in Proposal, NEW requested \in Requests, NEW trx \in Trx,
               Propose(q, requested, trx)
        PROVE  Asked(p, level)' = Asked(p, level)
    <3>1. p # q /\ UNCHANGED oldApprovals
      BY <2>1 DEF Propose
    <3>2. p \in DOMAIN approvals' <=> p \in DOMAIN approvals
      BY <2>1, <3>1 DEF Propose, Put
    <3>3. p \in DOMAIN approvals => approvals'[p] = approvals[p]
      BY <2>1, <3>1 DEF Propose, Put
    <3> QED BY <3>1, <3>2, <3>3, AskedSame
  <2>2. ASSUME NEW q \in Proposal, NEW l \in Level, NEW hash, Approve(q, l, hash)
        PROVE  Asked(p, level)' = Asked(p, level)
    BY <1>1, <2>2, ApproveKeepsLevels
  <2>3. ASSUME NEW q \in Proposal, NEW l \in Level, Unapprove(q, l)
        PROVE  Asked(p, level)' = Asked(p, level)
    BY <1>1, <2>3, UnapproveKeepsLevels
  <2>4. ASSUME NEW q, proposal' = Drop(proposal, q), EraseApprovals(q)
        PROVE  Asked(p, level)' = Asked(p, level)
    <3>1. p # q
      BY <2>4 DEF Drop
    <3>2. p \in DOMAIN approvals' <=> p \in DOMAIN approvals
      BY <2>4, <3>1 DEF EraseApprovals, Drop
    <3>3. p \in DOMAIN approvals => approvals'[p] = approvals[p]
      BY <2>4, <3>1 DEF EraseApprovals, Drop
    <3>4. p \notin DOMAIN approvals => oldApprovals'[p] = oldApprovals[p]
      BY <2>0, <2>4, <3>1 DEF EraseApprovals, Drop
    <3> QED BY <3>2, <3>3, <3>4, AskedSame
  <2>5. ASSUME UNCHANGED <<approvals, oldApprovals>> PROVE Asked(p, level)' = Asked(p, level)
    BY <2>5, AskedSame
  <2>6. ASSUME NEW q \in Proposal, NEW canceler \in Account, Cancel(q, canceler)
        PROVE  Asked(p, level)' = Asked(p, level)
    BY <2>4, <2>6 DEF Cancel
  <2>7. ASSUME NEW q \in Proposal, Exec(q) PROVE Asked(p, level)' = Asked(p, level)
    BY <2>4, <2>7 DEF Exec
  <2> QED BY <1>1, <2>1, <2>2, <2>3, <2>5, <2>6, <2>7
          DEF MsigNext, RunDeferred, Invalidate, NextSlot, msigVars
<1>2. MsigInv /\ [MsigNext]_msigVars => [Kept]_msigVars
  BY <1>1
<1> QED BY MsigInitInv, MsigNextInv, <1>2, PTL DEF MsigSpec, NoLevelIsLost, Kept

-----------------------------------------------------------------------------
(* eosio.msig implements Consent. *)

\* Who is in a list once an entry was appended to it, or erased from it.
LEMMA AppendMembers ==
  ASSUME NEW S, NEW s \in Seq(S), NEW e \in S, NEW x
  PROVE  (\E j \in DOMAIN Append(s, e) : Append(s, e)[j] = x)
            <=> (x = e \/ \E j \in DOMAIN s : s[j] = x)
<1>1. Len(s) \in Nat /\ DOMAIN s = 1 .. Len(s)
  BY LenProperties
<1>2. /\ Append(s, e) \in Seq(S) /\ Len(Append(s, e)) = Len(s) + 1
      /\ \A j \in 1 .. Len(s) : Append(s, e)[j] = s[j]
      /\ Append(s, e)[Len(s) + 1] = e
  BY AppendProperties
<1>3. DOMAIN Append(s, e) = 1 .. Len(s) + 1
  BY <1>2, LenProperties
<1>4. Len(s) + 1 \in 1 .. Len(s) + 1 /\ 1 .. Len(s) \subseteq 1 .. Len(s) + 1
  BY <1>1
<1>5. ASSUME NEW j \in 1 .. Len(s) + 1 PROVE j \in 1 .. Len(s) \/ j = Len(s) + 1
  BY <1>1
<1> QED BY <1>1, <1>2, <1>3, <1>4, <1>5

\* The same for erasing: at most the erased entry is gone.
LEMMA EraseMembers ==
  ASSUME NEW S, NEW s \in Seq(S), NEW i \in DOMAIN s, NEW x
  PROVE  /\ (\E j \in DOMAIN Erase(s, i) : Erase(s, i)[j] = x) => \E j \in DOMAIN s : s[j] = x
         /\ (\E j \in DOMAIN s : s[j] = x)
               => x = s[i] \/ \E j \in DOMAIN Erase(s, i) : Erase(s, i)[j] = x
<1>1. Len(s) \in Nat /\ DOMAIN s = 1 .. Len(s) /\ i \in 1 .. Len(s)
  BY LenProperties
<1>2. /\ Erase(s, i) \in Seq(S) /\ Len(Erase(s, i)) = Len(s) - 1
      /\ \A j \in 1 .. Len(s) - 1 : Erase(s, i)[j] = IF j < i THEN s[j] ELSE s[j + 1]
  BY EraseList
<1>3. DOMAIN Erase(s, i) = 1 .. Len(s) - 1
  BY <1>2, LenProperties
<1>4. ASSUME NEW j \in 1 .. Len(s) - 1, Erase(s, i)[j] = x PROVE \E k \in DOMAIN s : s[k] = x
  <2>1. j \in 1 .. Len(s) /\ j + 1 \in 1 .. Len(s)
    BY <1>1
  <2> QED BY <1>1, <1>2, <1>4, <2>1
<1>5. ASSUME NEW k \in 1 .. Len(s), s[k] = x, x # s[i]
      PROVE  \E j \in 1 .. Len(s) - 1 : Erase(s, i)[j] = x
  <2>1. CASE k < i
    BY <1>1, <1>2, <1>5, <2>1
  <2>2. CASE i < k
    <3>1. k - 1 \in 1 .. Len(s) - 1 /\ ~(k - 1 < i) /\ (k - 1) + 1 = k
      BY <1>1, <2>2
    <3> QED BY <1>2, <1>5, <3>1
  <2> QED BY <1>1, <1>5, <2>1, <2>2
<1> QED BY <1>1, <1>3, <1>4, <1>5

\* The levels of a list of approvals that count, and what a change of the list
\* does to them.
Counted(list) ==
    {list[i].level : i \in {i \in DOMAIN list : Counts(LevelActor[list[i].level], list[i].time)}}

CountedOld(list) == {list[i] : i \in {i \in DOMAIN list : LevelActor[list[i]] \notin DOMAIN invals}}

\* Set y is set x, or x with or without l.
Toggled(x, y, l) == y = x \/ y = x \cup {l} \/ y = x \ {l}

\* An approval more: its level counts from now on, or nothing changes.
LEMMA CountedAppend ==
  ASSUME NEW list \in Seq(Approval), NEW e \in Approval
  PROVE  Toggled(Counted(list), Counted(Append(list, e)), e.level)
<1> DEFINE new == Append(list, e)
<1>1. \A x : (\E j \in DOMAIN new : new[j] = x) <=> (x = e \/ \E j \in DOMAIN list : list[j] = x)
  BY AppendMembers
<1> HIDE DEF new
<1>2. Counted(list) \subseteq Counted(new)
  BY <1>1 DEF Counted
<1>3. Counted(new) \subseteq Counted(list) \cup {e.level}
  BY <1>1 DEF Counted
<1> QED BY <1>2, <1>3 DEF Toggled, new

\* An approval less: its level no longer counts, or counts by another approval.
LEMMA CountedErase ==
  ASSUME NEW list \in Seq(Approval), NEW i \in DOMAIN list
  PROVE  Toggled(Counted(list), Counted(Erase(list, i)), list[i].level)
<1> DEFINE new == Erase(list, i)
<1>1. \A x : /\ (\E j \in DOMAIN new : new[j] = x) => \E j \in DOMAIN list : list[j] = x
             /\ (\E j \in DOMAIN list : list[j] = x)
                   => x = list[i] \/ \E j \in DOMAIN new : new[j] = x
  BY EraseMembers
<1> HIDE DEF new
<1>2. Counted(new) \subseteq Counted(list)
  BY <1>1 DEF Counted
<1>3. Counted(list) \subseteq Counted(new) \cup {list[i].level}
  BY <1>1 DEF Counted
<1> QED BY <1>2, <1>3 DEF Toggled, new

\* The same in the old table.
LEMMA CountedOldAppend ==
  ASSUME NEW list \in Seq(Level), NEW l \in Level
  PROVE  Toggled(CountedOld(list), CountedOld(Append(list, l)), l)
<1> DEFINE new == Append(list, l)
<1>1. \A x : (\E j \in DOMAIN new : new[j] = x) <=> (x = l \/ \E j \in DOMAIN list : list[j] = x)
  BY AppendMembers
<1> HIDE DEF new
<1>2. CountedOld(list) \subseteq CountedOld(new)
  BY <1>1 DEF CountedOld
<1>3. CountedOld(new) \subseteq CountedOld(list) \cup {l}
  BY <1>1 DEF CountedOld
<1> QED BY <1>2, <1>3 DEF Toggled, new

\* The same in the old table.
LEMMA CountedOldErase ==
  ASSUME NEW list \in Seq(Level), NEW i \in DOMAIN list
  PROVE  Toggled(CountedOld(list), CountedOld(Erase(list, i)), list[i])
<1> DEFINE new == Erase(list, i)
<1>1. \A x : /\ (\E j \in DOMAIN new : new[j] = x) => \E j \in DOMAIN list : list[j] = x
             /\ (\E j \in DOMAIN list : list[j] = x)
                   => x = list[i] \/ \E j \in DOMAIN new : new[j] = x
  BY EraseMembers
<1> HIDE DEF new
<1>2. CountedOld(new) \subseteq CountedOld(list)
  BY <1>1 DEF CountedOld
<1>3. CountedOld(list) \subseteq CountedOld(new) \cup {list[i]}
  BY <1>1 DEF CountedOld
<1> QED BY <1>2, <1>3 DEF Toggled, new

\* The approvals exec counts are those of the list in the table that has the row.
LEMMA StandingIsCounted ==
  ASSUME NEW p
  PROVE  Standing(p) = IF p \in DOMAIN approvals THEN Counted(approvals[p].provided)
                                                 ELSE CountedOld(oldApprovals[p].provided)
BY DEF Standing, Counted, CountedOld

\* What consents of Consent stands for.
Consents == [p \in DOMAIN proposal |-> Standing(p)]

\* The consent to one proposal changed by one level, or not at all: Give, TakeBack
\* or no step.
LEMMA ToggleStep ==
  ASSUME NEW q \in Proposal, q \in DOMAIN proposal, NEW l \in Level,
         UNCHANGED <<proposal, invals, sent>>,
         Toggled(Standing(q), Standing(q)', l),
         \A r \in DOMAIN proposal \ {q} : Standing(r)' = Standing(r)
  PROVE  [Promise!Next]_(Promise!vars)
<1>1. /\ Consents' = [p \in DOMAIN proposal |-> Standing(p)']
      /\ Consents = [p \in DOMAIN proposal |-> Standing(p)]
  BY DEF Consents
<1>2. CASE Standing(q)' = Standing(q)
  <2>1. Consents' = Consents
    BY <1>1, <1>2
  <2> QED BY <2>1 DEF Promise!vars, Consents
<1>3. CASE Standing(q)' = Standing(q) \cup {l}
  <2>1. Consents' = [Consents EXCEPT ![q] = @ \cup {l}]
    BY <1>1, <1>3
  <2>2. Promise!Give(q, l)
    BY <2>1 DEF Promise!Give, Consents
  <2> QED BY <2>2 DEF Promise!Next
<1>4. CASE Standing(q)' = Standing(q) \ {l}
  <2>1. Consents' = [Consents EXCEPT ![q] = @ \ {l}]
    BY <1>1, <1>4
  <2>2. Promise!TakeBack(q, l)
    BY <2>1 DEF Promise!TakeBack, Consents
  <2> QED BY <2>2 DEF Promise!Next
<1> QED BY <1>2, <1>3, <1>4 DEF Toggled

\* What counts for a proposal stays while its row and the invalidations stay.
LEMMA StandingSame ==
  ASSUME NEW p, UNCHANGED invals,
         p \in DOMAIN approvals' <=> p \in DOMAIN approvals,
         p \in DOMAIN approvals => approvals'[p] = approvals[p],
         p \notin DOMAIN approvals => oldApprovals'[p] = oldApprovals[p]
  PROVE  Standing(p)' = Standing(p)
BY DEF Standing, Counts

\* approve gives consent, or finds it already given or invalidated.
LEMMA ApproveGives ==
  ASSUME MsigInv, NEW q \in Proposal, NEW l \in Level, NEW hash, Approve(q, l, hash)
  PROVE  [Promise!Next]_(Promise!vars)
<1>1. UNCHANGED <<proposal, invals, sent>>
  BY DEF Approve
<1>2. CASE q \in DOMAIN approvals
  <2> DEFINE from == approvals[q].requested
             to == approvals[q].provided
             e == [level |-> l, time |-> now]
             new(i) == [requested |-> Erase(from, i), provided |-> Append(to, e)]
  <2>1. PICK i \in DOMAIN from : approvals' = [approvals EXCEPT ![q] = new(i)]
    BY <1>2 DEF Approve
  <2>2. UNCHANGED oldApprovals
    BY <1>2 DEF Approve
  <2>3. approvals[q] \in NewRow /\ e \in Approval /\ e.level = l
    BY <1>2, MsigTables DEF IsTable, Approval
  <2>4. to \in Seq(Approval)
    BY <2>3 DEF NewRow
  <2>5. /\ DOMAIN approvals' = DOMAIN approvals
        /\ approvals'[q].provided = Append(to, e)
        /\ \A x \in DOMAIN approvals \ {q} : approvals'[x] = approvals[x]
    BY <1>2, <2>1, MsigTables DEF IsTable
  <2>6. Standing(q) = Counted(to)
    BY <1>2, StandingIsCounted
  <2>7. Standing(q)' = Counted(Append(to, e))
    BY <1>1, <1>2, <2>5 DEF Standing, Counted, Counts
  <2> HIDE DEF to, e
  <2>8. Toggled(Standing(q), Standing(q)', l)
    BY <2>3, <2>4, <2>6, <2>7, CountedAppend
  <2>9. \A r \in DOMAIN proposal \ {q} : Standing(r)' = Standing(r)
    BY <1>1, <2>2, <2>5, StandingSame
  <2> QED BY <1>1, <1>2, <2>8, <2>9, MsigTables, ToggleStep
<1>3. CASE q \notin DOMAIN approvals
  <2> DEFINE from == oldApprovals[q].requested
             to == oldApprovals[q].provided
             new(i) == [requested |-> Erase(from, i), provided |-> Append(to, l)]
  <2>1. PICK i \in DOMAIN from : oldApprovals' = [oldApprovals EXCEPT ![q] = new(i)]
    BY <1>3 DEF Approve
  <2>2. UNCHANGED approvals /\ q \in DOMAIN oldApprovals
    BY <1>3 DEF Approve
  <2>3. oldApprovals[q] \in OldRow
    BY <2>2, MsigTables DEF IsTable
  <2>4. to \in Seq(Level)
    BY <2>3 DEF OldRow
  <2>5. /\ oldApprovals'[q].provided = Append(to, l)
        /\ \A x \in DOMAIN oldApprovals \ {q} : oldApprovals'[x] = oldApprovals[x]
    BY <2>1, <2>2, MsigTables DEF IsTable
  <2>6. Standing(q) = CountedOld(to)
    BY <1>3, StandingIsCounted
  <2>7. Standing(q)' = CountedOld(Append(to, l))
    BY <1>1, <1>3, <2>2, <2>5 DEF Standing, CountedOld
  <2> HIDE DEF to
  <2>8. Toggled(Standing(q), Standing(q)', l)
    BY <2>4, <2>6, <2>7, CountedOldAppend
  <2>9. \A r \in DOMAIN proposal \ {q} : r \notin DOMAIN approvals => r \in DOMAIN oldApprovals
    BY MsigTables
  <2>10. \A r \in DOMAIN proposal \ {q} : Standing(r)' = Standing(r)
    BY <1>1, <2>2, <2>5, <2>9, StandingSame
  <2> QED BY <1>1, <2>2, <2>8, <2>10, MsigTables, ToggleStep
<1> QED BY <1>2, <1>3

\* unapprove takes consent back, or finds that it did not count or that another
\* approval of the level still does.
LEMMA UnapproveTakesBack ==
  ASSUME MsigInv, NEW q \in Proposal, NEW l \in Level, Unapprove(q, l)
  PROVE  [Promise!Next]_(Promise!vars)
<1>1. UNCHANGED <<proposal, invals, sent>>
  BY DEF Unapprove
<1>2. CASE q \in DOMAIN approvals
  <2> DEFINE from == approvals[q].provided
             to == approvals[q].requested
             e == [level |-> l, time |-> now]
             new(i) == [requested |-> Append(to, e), provided |-> Erase(from, i)]
  <2>1. PICK i \in DOMAIN from :
          IsFirst(Levels(from), i, l) /\ approvals' = [approvals EXCEPT ![q] = new(i)]
    BY <1>2 DEF Unapprove
  <2>2. UNCHANGED oldApprovals
    BY <1>2 DEF Unapprove
  <2>3. approvals[q] \in NewRow /\ from[i].level = l
    BY <1>2, <2>1, MsigTables DEF IsTable, IsFirst, Levels
  <2>4. from \in Seq(Approval)
    BY <2>3 DEF NewRow
  <2>5. /\ DOMAIN approvals' = DOMAIN approvals
        /\ approvals'[q].provided = Erase(from, i)
        /\ \A x \in DOMAIN approvals \ {q} : approvals'[x] = approvals[x]
    BY <1>2, <2>1, MsigTables DEF IsTable
  <2>6. Standing(q) = Counted(from)
    BY <1>2, StandingIsCounted
  <2>7. Standing(q)' = Counted(Erase(from, i))
    BY <1>1, <1>2, <2>5 DEF Standing, Counted, Counts
  <2>0. i \in DOMAIN from
    BY <2>1
  <2> HIDE DEF from
  <2>8. Toggled(Standing(q), Standing(q)', l)
    BY <2>0, <2>3, <2>4, <2>6, <2>7, CountedErase
  <2>9. \A r \in DOMAIN proposal \ {q} : Standing(r)' = Standing(r)
    BY <1>1, <2>2, <2>5, StandingSame
  <2> QED BY <1>1, <1>2, <2>8, <2>9, MsigTables, ToggleStep
<1>3. CASE q \notin DOMAIN approvals
  <2> DEFINE from == oldApprovals[q].provided
             to == oldApprovals[q].requested
             new(i) == [requested |-> Append(to, l), provided |-> Erase(from, i)]
  <2>1. PICK i \in DOMAIN from :
          IsFirst(from, i, l) /\ oldApprovals' = [oldApprovals EXCEPT ![q] = new(i)]
    BY <1>3 DEF Unapprove
  <2>2. UNCHANGED approvals /\ q \in DOMAIN oldApprovals
    BY <1>3 DEF Unapprove
  <2>3. oldApprovals[q] \in OldRow
    BY <2>2, MsigTables DEF IsTable
  <2>4. from \in Seq(Level) /\ i \in DOMAIN from /\ from[i] = l
    BY <2>1, <2>3 DEF OldRow, IsFirst
  <2>5. /\ oldApprovals'[q].provided = Erase(from, i)
        /\ \A x \in DOMAIN oldApprovals \ {q} : oldApprovals'[x] = oldApprovals[x]
    BY <2>1, <2>2, MsigTables DEF IsTable
  <2>6. Standing(q) = CountedOld(from)
    BY <1>3, StandingIsCounted
  <2>7. Standing(q)' = CountedOld(Erase(from, i))
    BY <1>1, <1>3, <2>2, <2>5 DEF Standing, CountedOld
  <2> HIDE DEF from
  <2>8. Toggled(Standing(q), Standing(q)', l)
    BY <2>4, <2>6, <2>7, CountedOldErase
  <2>9. \A r \in DOMAIN proposal \ {q} : r \notin DOMAIN approvals => r \in DOMAIN oldApprovals
    BY MsigTables
  <2>10. \A r \in DOMAIN proposal \ {q} : Standing(r)' = Standing(r)
    BY <1>1, <2>2, <2>5, <2>9, StandingSame
  <2> QED BY <1>1, <2>2, <2>8, <2>10, MsigTables, ToggleStep
<1> QED BY <1>2, <1>3

\* propose opens a proposal no level consents to yet.
LEMMA ProposeOpens ==
  ASSUME MsigInv, NEW q \in Proposal, NEW requested \in Requests, NEW trx \in Trx,
         Propose(q, requested, trx)
  PROVE  Promise!Open(q, trx)
<1>1. /\ q \notin DOMAIN proposal /\ proposal' = Put(proposal, q, trx)
      /\ q \notin DOMAIN approvals
      /\ DOMAIN approvals' = DOMAIN approvals \cup {q}
      /\ approvals'[q].provided = << >>
      /\ \A r \in DOMAIN approvals : approvals'[r] = approvals[r]
      /\ UNCHANGED <<oldApprovals, invals, sent>>
  BY DEF Propose, Put
<1>2. Standing(q)' = {}
  BY <1>1 DEF Standing
<1>3. \A r \in DOMAIN proposal : Standing(r)' = Standing(r)
  BY <1>1, StandingSame
<1>4. /\ Consents' = [p \in DOMAIN proposal' |-> Standing(p)']
      /\ Consents = [p \in DOMAIN proposal |-> Standing(p)]
  BY DEF Consents
<1>5. DOMAIN proposal' = DOMAIN proposal \cup {q}
  BY <1>1 DEF Put
<1>6. Consents' = Put(Consents, q, {})
  BY <1>1, <1>2, <1>3, <1>4, <1>5 DEF Put
<1> QED BY <1>1, <1>6 DEF Promise!Open, Promise!Put, Put, Consents

\* cancel and exec close a proposal.
LEMMA ErasesClose ==
  ASSUME MsigInv, NEW q \in DOMAIN proposal, proposal' = Drop(proposal, q), EraseApprovals(q),
         UNCHANGED invals
  PROVE  Promise!Close(q)
<1>1. /\ DOMAIN approvals' = DOMAIN approvals \ {q}
      /\ \A r \in DOMAIN approvals \ {q} : approvals'[r] = approvals[r]
      /\ \A r \in DOMAIN oldApprovals \ {q} : oldApprovals'[r] = oldApprovals[r]
  BY MsigTables DEF EraseApprovals, Drop
<1>2. \A r \in DOMAIN proposal \ {q} : r \notin DOMAIN approvals => r \in DOMAIN oldApprovals
  BY MsigTables
<1>3. \A r \in DOMAIN proposal \ {q} : Standing(r)' = Standing(r)
  BY <1>1, <1>2, StandingSame
<1>4. /\ Consents' = [p \in DOMAIN proposal' |-> Standing(p)']
      /\ Consents = [p \in DOMAIN proposal |-> Standing(p)]
      /\ DOMAIN proposal' = DOMAIN proposal \ {q}
  BY DEF Consents, Drop
<1>5. Consents' = Drop(Consents, q)
  BY <1>3, <1>4 DEF Drop
<1> QED BY <1>5 DEF Promise!Close, Promise!Drop, Drop, Consents

\* invalidate takes back what its account gave, in every proposal: no approval
\* it gave is of a later slot.
LEMMA InvalidateTakesAllBack ==
  ASSUME MsigInv, NEW account \in Account, Invalidate(account)
  PROVE  Promise!TakeAllBack(account, now)
<1>1. /\ invals' = Put(invals, account, now)
      /\ UNCHANGED <<proposal, approvals, oldApprovals, sent, now>>
  BY DEF Invalidate
<1>2. /\ DOMAIN invals' = DOMAIN invals \cup {account} /\ invals'[account] = now
      /\ \A a \in DOMAIN invals \ {account} : invals'[a] = invals[a]
  BY <1>1 DEF Put
<1>3. ASSUME NEW p \in DOMAIN proposal
      PROVE  Standing(p)' = {level \in Standing(p) : LevelActor[level] # account}
  <2>1. CASE p \in DOMAIN approvals
    <3> DEFINE list == approvals[p].provided
    <3>1. approvals[p] \in NewRow
      BY <2>1, MsigTables DEF IsTable
    <3>2. \A i \in DOMAIN list : list[i].time \in Nat /\ list[i].time <= now
      <4>1. list \in Seq(Approval)
        BY <3>1 DEF NewRow
      <4>2. \A i \in DOMAIN list : list[i] \in Approval
        BY <4>1, LenProperties
      <4>3. \A i \in DOMAIN list : list[i].time \in Nat
        BY <4>2 DEF Approval
      <4> QED BY <2>1, <4>3 DEF MsigInv, ApprovalsArePast
    <3>3. ASSUME NEW i \in DOMAIN list
          PROVE  Counts(LevelActor[list[i].level], list[i].time)'
                   <=> /\ Counts(LevelActor[list[i].level], list[i].time)
                       /\ LevelActor[list[i].level] # account
      <4> DEFINE a == LevelActor[list[i].level]
                 t == list[i].time
      <4>1. t \in Nat /\ t <= now /\ now \in Nat
        BY <3>2, MsigTables
      <4>2. UNCHANGED <<a, t>>
        BY <1>1
      <4>3. CASE a = account
        <5>1. a \in DOMAIN invals' /\ ~(invals'[a] < t)
          BY <1>2, <4>1, <4>3
        <5> QED BY <4>2, <4>3, <5>1 DEF Counts
      <4>4. CASE a # account
        BY <1>2, <4>2, <4>4 DEF Counts
      <4> QED BY <4>3, <4>4
    <3>4. /\ Standing(p) = {list[i].level : i \in
                {i \in DOMAIN list : Counts(LevelActor[list[i].level], list[i].time)}}
          /\ Standing(p)' = {list[i].level : i \in
                {i \in DOMAIN list : Counts(LevelActor[list[i].level], list[i].time)'}}
      BY <1>1, <2>1 DEF Standing
    <3> HIDE DEF list
    <3> QED BY <3>3, <3>4
  <2>2. CASE p \notin DOMAIN approvals
    BY <1>1, <1>2, <2>2 DEF Standing
  <2> QED BY <2>1, <2>2
<1>4. /\ Consents' = [p \in DOMAIN proposal |-> Standing(p)']
      /\ Consents = [p \in DOMAIN proposal |-> Standing(p)]
  BY <1>1 DEF Consents
<1>5. Consents' = [p \in DOMAIN Consents |->
                     {level \in Consents[p] : LevelActor[level] # account}]
  BY <1>3, <1>4
<1> QED BY <1>1, <1>5 DEF Promise!TakeAllBack, Promise!Put, Put, Consents

\* A fresh contract, and one with old proposals, starts as Consent does.
LEMMA MsigInitConsents == MsigInit => Promise!Init
<1> SUFFICES ASSUME MsigInit PROVE Promise!Init
  OBVIOUS
<1>1. PICK P \in SUBSET Proposal : proposal \in [P -> Trx]
  BY DEF MsigInit
<1>2. Requests \subseteq Seq(Level)
  BY MsigAssumption DEF Requests
<1>3. oldApprovals \in [P -> OldRow] /\ DOMAIN approvals = {}
  BY <1>1, <1>2 DEF MsigInit, NoRows, OldRow
<1>4. ASSUME NEW p \in P PROVE Standing(p) \in SUBSET Level
  <2>1. oldApprovals[p].provided \in Seq(Level)
    BY <1>3 DEF OldRow
  <2>2. \A i \in DOMAIN oldApprovals[p].provided : oldApprovals[p].provided[i] \in Level
    BY <2>1, LenProperties
  <2> QED BY <1>3, <2>2 DEF Standing
<1>5. Consents \in [P -> SUBSET Level]
  BY <1>1, <1>4 DEF Consents
<1>6. invals = Promise!NoRows /\ sent = Promise!NoRows
  BY DEF MsigInit, NoRows, Promise!NoRows
<1> QED BY <1>1, <1>5, <1>6 DEF Promise!Init, Consents

\* Every step of eosio.msig is a step of Consent, or none.
LEMMA MsigNextConsents ==
  ASSUME MsigInv, [MsigNext]_msigVars
  PROVE  [Promise!Next]_(Promise!vars)
<1>1. ASSUME NEW p \in Proposal, NEW requested \in Requests, NEW trx \in Trx,
             Propose(p, requested, trx)
      PROVE  Promise!Next
  BY <1>1, ProposeOpens DEF Promise!Next
<1>2. ASSUME NEW p \in Proposal, NEW level \in Level, NEW hash,
             Approve(p, level, hash) \/ Unapprove(p, level)
      PROVE  [Promise!Next]_(Promise!vars)
  BY <1>2, ApproveGives, UnapproveTakesBack
<1>3. ASSUME NEW p \in Proposal, NEW canceler \in Account, Cancel(p, canceler)
      PROVE  Promise!Next
  <2>1. Promise!Close(p) /\ UNCHANGED sent
    BY <1>3, ErasesClose DEF Cancel
  <2> QED BY <2>1 DEF Promise!Next
<1>4. ASSUME NEW p \in Proposal, Exec(p) PROVE Promise!Next
  <2>1. Promise!Close(p)
    BY <1>4, ErasesClose DEF Exec
  <2>2. /\ p \in DOMAIN proposal /\ p \notin DOMAIN sent
        /\ sent' = Promise!Put(sent, p, proposal[p])
        /\ \E quorum \in Quorums[proposal[p]] : quorum \subseteq Consents[p]
    BY <1>4 DEF Exec, Authorized, Consents, Put, Promise!Put
  <2>3. Promise!Run(p)
    BY <2>1, <2>2 DEF Promise!Run, Consents
  <2> QED BY <2>3 DEF Promise!Next
<1>5. ASSUME NEW p \in Proposal, RunDeferred(p) PROVE Promise!Next
  <2>1. UNCHANGED Consents
    BY <1>5 DEF RunDeferred, Consents, Standing, Counts
  <2>2. Promise!Finish(p)
    BY <1>5, <2>1 DEF RunDeferred, Promise!Finish, Promise!Drop, Drop, Consents
  <2> QED BY <2>2 DEF Promise!Next
<1>6. ASSUME NEW account \in Account, Invalidate(account) PROVE Promise!Next
  <2>1. now \in 0 .. MaxSlot
    BY MsigTables
  <2> QED BY <1>6, <2>1, InvalidateTakesAllBack DEF Promise!Next
<1>7. CASE NextSlot \/ UNCHANGED msigVars
  <2>1. UNCHANGED <<proposal, approvals, oldApprovals, invals, sent>>
    BY <1>7 DEF NextSlot, msigVars
  <2>2. UNCHANGED Consents
    BY <2>1 DEF Consents, Standing, Counts
  <2> QED BY <2>1, <2>2 DEF Promise!vars, Consents
<1> QED BY <1>1, <1>2, <1>3, <1>4, <1>5, <1>6, <1>7 DEF MsigNext

\* eosio.msig implements Consent: approvals given before an invalidation never
\* count again, what is run had a quorum when it was, and nothing runs twice.
THEOREM MsigImplementsConsent == MsigSpec => KeepsPromise
<1>1. MsigInit => Promise!Init
  BY MsigInitConsents
<1>2. MsigInv /\ [MsigNext]_msigVars => [Promise!Next]_(Promise!vars)
  BY MsigNextConsents
<1> QED BY MsigInitInv, MsigNextInv, <1>1, <1>2, PTL DEF MsigSpec, KeepsPromise, Promise!Spec

=============================================================================
