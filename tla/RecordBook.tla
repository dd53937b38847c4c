----------------------------- MODULE RecordBook -----------------------------
(***************************************************************************)
(* What a table of records promises: a book with at most one entry of an   *)
(* id.  Writing an id that is in the book replaces its entry where it      *)
(* stands; a new id goes to the end; striking an id out moves no other.    *)
(***************************************************************************)
EXTENDS Naturals, Sequences

CONSTANTS Id, Content

VARIABLE book     \* sequence of entries

Entry(i) == book[i].id

Init == book = << >>

Add(id, content) ==
    /\ \A i \in DOMAIN book : Entry(i) # id
    /\ book' = Append(book, [id |-> id, content |-> content])

Replace(id, content) ==
    \E i \in DOMAIN book :
        Entry(i) = id /\ book' = [book EXCEPT ![i].content = content]

Strike(id) ==
    \E i \in DOMAIN book :
        /\ Entry(i) = id
        /\ book' = SubSeq(book, 1, i - 1) \o SubSeq(book, i + 1, Len(book))

Next ==
    /\ book' # book
    /\ \E id \in Id :
         \/ \E content \in Content : Add(id, content) \/ Replace(id, content)
         \/ Strike(id)

Spec == Init /\ [][Next]_book
=============================================================================
