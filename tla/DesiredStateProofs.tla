------------------------ MODULE DesiredStateProofs -------------------------
(***************************************************************************)
(* Proofs about the panel of DesiredState, for any number of               *)
(* administrators, rows and writes.                                        *)
(*                                                                         *)
(* The invariant has three parts that no step relates.  DbOK says what     *)
(* the tables of the database keep to each other.  PanelOK says what the   *)
(* rows on screens and in connection tests, read some writes ago, still    *)
(* tell about the rows in the database: a row of the same birth and        *)
(* revision is the same document.  ScanOK says what pages have been met.   *)
(*                                                                         *)
(* The statements of DesiredStore are proved about first, as functions.    *)
(***************************************************************************)
EXTENDS DesiredState, FiniteSetTheorems, SequenceTheorems, WellFoundedInduction, TLAPS

------------------------------------------------------------------------------
(* What the tables keep to each other. *)

Fields == Tables \cup {"credentials", "links", "births"}

RowOK(d, row, docs) == row \in RowOf(docs) /\ row.born <= d.births

RowsOK(d, D) ==
  /\ DOMAIN d = Fields
  /\ d.births \in Nat
  /\ \A table \in Tables : Present(d, table) \subseteq Ids
  /\ \A table \in Tables : \A i \in Present(d, table) : RowOK(d, d[table][i], D[table])

RefsOK(d) ==
  /\ DOMAIN d.credentials = Present(d, "outbounds")
  /\ \A i \in Present(d, "outbounds") : d.credentials[i] = d.outbounds[i].doc.shape
  /\ OutboundReferences(d)
  /\ DOMAIN d.links = Present(d, "frontends")
  /\ \A f \in Present(d, "frontends") : d.links[f] = d.frontends[f].doc.backends
  /\ LinkReferences(d)

DbOK(d, D) == RowsOK(d, D) /\ RefsOK(d)

\* What a statement of the author of revision `rev` of row i0 of table t0 may do
\* to the rows: replace or remove that revision, and insert.
RowWritten(d, e, t, i, t0, i0, rev) ==
  \/ i \in Present(e, t) /\ e[t][i] = d[t][i]
  \/ /\ t = t0 /\ i = i0 /\ d[t][i].revision = rev
     /\ i \in Present(e, t) => e[t][i].born = d[t][i].born /\ e[t][i].revision > rev

Written(d, e, t0, i0, rev) ==
  /\ e.births >= d.births
  /\ \A t \in Tables : \A i \in Present(d, t) : RowWritten(d, e, t, i, t0, i0, rev)
  /\ \A t \in Tables : \A i \in Present(e, t) \ Present(d, t) : e[t][i].born > d.births

AnswerOK(d, answer, D, t, i, rev) ==
  DbOK(answer.db, D) /\ Written(d, answer.db, t, i, rev)

\* Everything but one table, and perhaps the count of births.
SameBut(d, e, table) ==
  DOMAIN e = Fields /\ \A f \in Fields \ {table, "births"} : e[f] = d[f]

------------------------------------------------------------------------------
(* The statements every table has. *)

LEMMA NothingWritten ==
  ASSUME NEW D, NEW d, DbOK(d, D), NEW t, NEW i, NEW rev, NEW err
  PROVE  AnswerOK(d, Answer(d, err), D, t, i, rev)
  BY DEF AnswerOK, Answer, Written, RowWritten, DbOK, RowsOK

\* A new row and the rows that were there.
LEMMA InsertedRow ==
  ASSUME NEW D, NEW d, RowsOK(d, D), NEW t \in Tables, NEW i \in Ids, NEW doc \in D[t],
         i \notin Present(d, t), NEW t0, NEW i0, NEW rev
  PROVE  /\ RowsOK(Inserted(d, t, i, doc), D)
         /\ SameBut(d, Inserted(d, t, i, doc), t)
         /\ Present(Inserted(d, t, i, doc), t) = Present(d, t) \cup {i}
         /\ Inserted(d, t, i, doc)[t][i].doc = doc
         /\ \A j \in Present(d, t) : Inserted(d, t, i, doc)[t][j] = d[t][j]
         /\ Written(d, Inserted(d, t, i, doc), t0, i0, rev)
<1> DEFINE row == [doc |-> doc, revision |-> 1, born |-> d.births + 1]
           e == Inserted(d, t, i, doc)
<1>1. /\ DOMAIN d = Fields /\ d.births \in Nat
      /\ \A u \in Tables : Present(d, u) \subseteq Ids
      /\ \A u \in Tables : \A j \in Present(d, u) : RowOK(d, d[u][j], D[u])
  BY DEF RowsOK
<1>2. t \in Fields /\ "births" \in Fields /\ t # "births" /\ Tables \subseteq Fields
      /\ "births" \notin Tables
  BY DEF Fields, Tables
<1>3. /\ DOMAIN e = Fields
      /\ e.births = d.births + 1
      /\ e[t] = WithRow(d[t], i, row)
      /\ \A f \in Fields \ {t, "births"} : e[f] = d[f]
  BY <1>1, <1>2 DEF Inserted
<1> HIDE DEF e
<1>4. Present(e, t) = Present(d, t) \cup {i}
      /\ e[t][i] = row
      /\ \A j \in Present(d, t) : e[t][j] = d[t][j]
  BY <1>3 DEF WithRow, Present
<1>5. \A u \in Tables \ {t} : e[u] = d[u]
  BY <1>2, <1>3
<1>6. row \in RowOf(D[t]) /\ row.born = d.births + 1 /\ row.doc = doc
  BY <1>1 DEF RowOf
<1> HIDE DEF row
<1>7. ASSUME NEW u \in Tables, NEW j \in Present(e, u) PROVE RowOK(e, e[u][j], D[u]) /\ j \in Ids
  <2>1. CASE u = t /\ j = i
    BY <1>1, <1>3, <1>4, <1>6, <2>1 DEF RowOK
  <2>2. CASE ~(u = t /\ j = i)
    <3>1. j \in Present(d, u) /\ e[u][j] = d[u][j]
      BY <1>4, <1>5, <2>2 DEF Present
    <3>2. RowOK(d, d[u][j], D[u])
      BY <1>1, <3>1
    <3>3. d[u][j].born \in Nat
      BY <3>2 DEF RowOK, RowOf
    <3> QED
      BY <1>1, <1>3, <3>1, <3>2, <3>3 DEF RowOK
  <2> QED
    BY <2>1, <2>2
<1>8. RowsOK(e, D)
  BY <1>1, <1>3, <1>7 DEF RowsOK
<1>9. Written(d, e, t0, i0, rev)
  <2>1. \A u \in Tables : \A j \in Present(d, u) : j \in Present(e, u) /\ e[u][j] = d[u][j]
    BY <1>4, <1>5 DEF Present
  <2>2. \A u \in Tables : \A j \in Present(e, u) \ Present(d, u) : u = t /\ j = i
    BY <1>4, <1>5 DEF Present
  <2> QED
    BY <1>1, <1>3, <1>4, <1>6, <2>1, <2>2 DEF Written, RowWritten
<1> QED
  BY <1>3, <1>4, <1>6, <1>8, <1>9 DEF e, SameBut

\* A row that is replaced and the rows beside it.
LEMMA ReplacedRow ==
  ASSUME NEW D, NEW d, RowsOK(d, D), NEW t \in Tables, NEW i, NEW doc \in D[t], NEW rev,
         Current(d, t, i, rev)
  PROVE  /\ RowsOK(Replaced(d, t, i, doc), D)
         /\ SameBut(d, Replaced(d, t, i, doc), t)
         /\ Present(Replaced(d, t, i, doc), t) = Present(d, t)
         /\ Replaced(d, t, i, doc)[t][i].doc = doc
         /\ \A j \in Present(d, t) \ {i} : Replaced(d, t, i, doc)[t][j] = d[t][j]
         /\ Written(d, Replaced(d, t, i, doc), t, i, rev)
<1> DEFINE row == [doc |-> doc, revision |-> d[t][i].revision + 1, born |-> d[t][i].born]
           e == Replaced(d, t, i, doc)
<1>1. /\ DOMAIN d = Fields /\ d.births \in Nat
      /\ \A u \in Tables : Present(d, u) \subseteq Ids
      /\ \A u \in Tables : \A j \in Present(d, u) : RowOK(d, d[u][j], D[u])
  BY DEF RowsOK
<1>2. t \in Fields /\ "births" \in Fields /\ t # "births" /\ Tables \subseteq Fields
      /\ "births" \notin Tables
  BY DEF Fields, Tables
<1>3. i \in Present(d, t) /\ d[t][i].revision = rev
  BY DEF Current
<1>4. d[t][i] \in RowOf(D[t]) /\ d[t][i].born <= d.births
  BY <1>1, <1>3 DEF RowOK
<1>5. /\ row \in RowOf(D[t]) /\ row.doc = doc
      /\ row.born = d[t][i].born /\ row.born \in Nat
      /\ rev \in Nat /\ row.revision = rev + 1
  <2>1. PICK docs : docs = D[t]
    OBVIOUS
  <2>2. PICK r \in [doc : docs, revision : Nat \ {0}, born : Nat \ {0}] : r = d[t][i]
    BY <1>4, <2>1 DEF RowOf
  <2>3. rev = r.revision /\ rev \in Nat /\ rev + 1 \in Nat \ {0}
    BY <1>3, <2>2
  <2>4. row = [doc |-> doc, revision |-> rev + 1, born |-> r.born]
    BY <2>2, <2>3
  <2> HIDE DEF row
  <2> QED
    BY <2>1, <2>2, <2>3, <2>4 DEF RowOf
<1>6. /\ DOMAIN e = Fields
      /\ \A f \in Fields \ {t} : e[f] = d[f]
      /\ e[t] = [d[t] EXCEPT ![i] = row]
  <2>1. e = [d EXCEPT ![t] = [d[t] EXCEPT ![i] = row]]
    BY DEF Replaced
  <2> HIDE DEF e, row
  <2> QED
    BY <1>1, <1>2, <2>1
<1> HIDE DEF e, row
<1>7. Present(e, t) = Present(d, t)
      /\ e[t][i] = row
      /\ \A j \in Present(d, t) \ {i} : e[t][j] = d[t][j]
  BY <1>3, <1>6 DEF Present
<1>8. \A u \in Tables \ {t} : e[u] = d[u]
  BY <1>2, <1>6
<1>9. e.births = d.births
  BY <1>2, <1>6
<1>10. ASSUME NEW u \in Tables, NEW j \in Present(e, u) PROVE RowOK(e, e[u][j], D[u]) /\ j \in Ids
  <2>1. CASE u = t /\ j = i
    BY <1>1, <1>3, <1>4, <1>5, <1>7, <1>9, <2>1 DEF RowOK
  <2>2. CASE ~(u = t /\ j = i)
    <3>1. j \in Present(d, u) /\ e[u][j] = d[u][j]
      BY <1>7, <1>8, <2>2 DEF Present
    <3> QED
      BY <1>1, <1>9, <3>1 DEF RowOK
  <2> QED
    BY <2>1, <2>2
<1>11. RowsOK(e, D)
  BY <1>1, <1>6, <1>9, <1>10 DEF RowsOK
<1>12. Written(d, e, t, i, rev)
  <2>1. ASSUME NEW u \in Tables, NEW j \in Present(d, u) PROVE RowWritten(d, e, u, j, t, i, rev)
    <3>1. CASE u = t /\ j = i
      BY <1>3, <1>5, <1>7, <3>1 DEF RowWritten
    <3>2. CASE ~(u = t /\ j = i)
      BY <1>7, <1>8, <3>2 DEF Present, RowWritten
    <3> QED
      BY <3>1, <3>2
  <2>2. \A u \in Tables : Present(e, u) = Present(d, u)
    BY <1>7, <1>8 DEF Present
  <2> QED
    BY <1>1, <1>9, <2>1, <2>2 DEF Written
<1> QED
  BY <1>5, <1>6, <1>7, <1>11, <1>12 DEF e, SameBut

\* A row that is removed.
LEMMA RemovedRow ==
  ASSUME NEW D, NEW d, RowsOK(d, D), NEW t \in Tables, NEW i, NEW rev, Current(d, t, i, rev)
  PROVE  /\ RowsOK(Removed(d, t, i), D)
         /\ SameBut(d, Removed(d, t, i), t)
         /\ Present(Removed(d, t, i), t) = Present(d, t) \ {i}
         /\ \A j \in Present(d, t) \ {i} : Removed(d, t, i)[t][j] = d[t][j]
         /\ Written(d, Removed(d, t, i), t, i, rev)
<1> DEFINE e == Removed(d, t, i)
<1>1. /\ DOMAIN d = Fields /\ d.births \in Nat
      /\ \A u \in Tables : Present(d, u) \subseteq Ids
      /\ \A u \in Tables : \A j \in Present(d, u) : RowOK(d, d[u][j], D[u])
  BY DEF RowsOK
<1>2. t \in Fields /\ "births" \in Fields /\ t # "births" /\ Tables \subseteq Fields
      /\ "births" \notin Tables
  BY DEF Fields, Tables
<1>3. i \in Present(d, t) /\ d[t][i].revision = rev
  BY DEF Current
<1>4. /\ DOMAIN e = Fields
      /\ \A f \in Fields \ {t} : e[f] = d[f]
      /\ e[t] = Restrict(d[t], DOMAIN d[t] \ {i})
  BY <1>1, <1>2 DEF Removed
<1> HIDE DEF e
<1>5. Present(e, t) = Present(d, t) \ {i}
      /\ \A j \in Present(d, t) \ {i} : e[t][j] = d[t][j]
  BY <1>4 DEF Present, Restrict
<1>6. \A u \in Tables \ {t} : e[u] = d[u]
  BY <1>2, <1>4
<1>7. e.births = d.births
  BY <1>2, <1>4
<1>8. \A u \in Tables : \A j \in Present(e, u) :
        j \in Present(d, u) /\ e[u][j] = d[u][j]
  BY <1>5, <1>6 DEF Present
<1>9. RowsOK(e, D)
  BY <1>1, <1>4, <1>7, <1>8 DEF RowsOK, RowOK
<1>10. Written(d, e, t, i, rev)
  <2>1. ASSUME NEW u \in Tables, NEW j \in Present(d, u) PROVE RowWritten(d, e, u, j, t, i, rev)
    <3>1. CASE u = t /\ j = i
      BY <1>3, <1>5, <3>1 DEF RowWritten
    <3>2. CASE ~(u = t /\ j = i)
      BY <1>5, <1>6, <3>2 DEF Present, RowWritten
    <3> QED
      BY <3>1, <3>2
  <2> QED
    BY <1>1, <1>7, <1>8, <2>1 DEF Written
<1> QED
  BY <1>4, <1>5, <1>9, <1>10 DEF e, SameBut

\* The count that numbers the rows of a batch.
LEMMA Rank ==
  ASSUME NEW S \in SUBSET Ids, NEW i \in S
  PROVE  /\ Cardinality({j \in S : j <= i}) \in Nat \ {0}
         /\ Cardinality(S) \in Nat
         /\ Cardinality({j \in S : j <= i}) <= Cardinality(S)
<1> DEFINE R == {j \in S : j <= i}
<1>1. IsFiniteSet(S) /\ i \in Nat
  BY FS_Subset, IdsAreNumbers
<1>2. IsFiniteSet(R) /\ R \subseteq S /\ Cardinality(R) <= Cardinality(S)
  BY <1>1, FS_Subset
<1>3. R # {}
  BY <1>1
<1>4. Cardinality(R) \in Nat /\ Cardinality(S) \in Nat /\ Cardinality(R) # 0
  BY <1>1, <1>2, <1>3, FS_CardinalityType, FS_EmptySet
<1> QED
  BY <1>2, <1>4

\* The rows of a batch and those that were there.
BatchOK(d, e, D, t, S, docs) ==
  /\ RowsOK(e, D)
  /\ SameBut(d, e, t)
  /\ Present(e, t) = Present(d, t) \cup S
  /\ \A i \in S : e[t][i].doc = docs[i]
  /\ \A j \in Present(d, t) : e[t][j] = d[t][j]
  /\ \A t0, i0, rev : Written(d, e, t0, i0, rev)

LEMMA InsertedBatch ==
  ASSUME NEW D, NEW d, RowsOK(d, D), NEW t \in Tables, NEW S \in SUBSET Ids,
         NEW docs \in [S -> D[t]], S \cap Present(d, t) = {}
  PROVE  BatchOK(d, InsertedRows(d, t, docs), D, t, S, docs)
<1> DEFINE rank(i) == Cardinality({j \in S : j <= i})
           row(i) == [doc |-> docs[i], revision |-> 1, born |-> d.births + rank(i)]
           e == InsertedRows(d, t, docs)
<1>1. /\ DOMAIN d = Fields /\ d.births \in Nat
      /\ \A u \in Tables : Present(d, u) \subseteq Ids
      /\ \A u \in Tables : \A j \in Present(d, u) : RowOK(d, d[u][j], D[u])
  BY DEF RowsOK
<1>2. t \in Fields /\ "births" \in Fields /\ t # "births" /\ Tables \subseteq Fields
      /\ "births" \notin Tables
  BY DEF Fields, Tables
<1>3. \A i \in S : rank(i) \in Nat \ {0} /\ rank(i) <= Cardinality(S)
  BY Rank
<1>4. Cardinality(S) \in Nat
  BY FS_Subset, FS_CardinalityType, IdsAreNumbers
<1>5. PICK all : all = [i \in S |-> row(i)]
  OBVIOUS
<1>6. e = [d EXCEPT ![t] = WithRows(@, all), !.births = @ + Cardinality(S)]
  BY <1>5 DEF InsertedRows
<1> HIDE DEF e, rank
<1>7. /\ DOMAIN e = Fields
      /\ e.births = d.births + Cardinality(S)
      /\ e[t] = WithRows(d[t], all)
      /\ \A f \in Fields \ {t, "births"} : e[f] = d[f]
  BY <1>1, <1>2, <1>6
<1>8. /\ Present(e, t) = Present(d, t) \cup S
      /\ \A i \in S : e[t][i] = row(i)
      /\ \A j \in Present(d, t) : e[t][j] = d[t][j]
  BY <1>5, <1>7 DEF WithRows, Present
<1>9. \A u \in Tables \ {t} : e[u] = d[u]
  BY <1>2, <1>7
<1>10. e.births \in Nat /\ e.births >= d.births
  BY <1>1, <1>4, <1>7
<1>11. \A i \in S : /\ e[t][i] \in RowOf(D[t]) /\ e[t][i].doc = docs[i]
                    /\ e[t][i].born > d.births /\ e[t][i].born <= e.births
  <2>1. SUFFICES ASSUME NEW i \in S
                 PROVE  /\ row(i) \in RowOf(D[t]) /\ row(i).doc = docs[i]
                        /\ row(i).born > d.births /\ row(i).born <= e.births
    BY <1>8
  <2>2. docs[i] \in D[t]
    OBVIOUS
  <2>3. /\ d.births + rank(i) \in Nat \ {0}
        /\ d.births + rank(i) > d.births
        /\ d.births + rank(i) <= e.births
    BY <1>1, <1>3, <1>4, <1>7
  <2> QED
    BY <2>2, <2>3 DEF RowOf
<1> HIDE DEF row
<1>12. ASSUME NEW u \in Tables, NEW j \in Present(e, u) PROVE RowOK(e, e[u][j], D[u]) /\ j \in Ids
  <2>1. CASE u = t /\ j \in S
    BY <1>11, <2>1 DEF RowOK
  <2>2. CASE ~(u = t /\ j \in S)
    <3>1. j \in Present(d, u) /\ e[u][j] = d[u][j]
      <4>1. CASE u = t
        BY <1>8, <2>2, <4>1
      <4>2. CASE u # t
        BY <1>9, <4>2 DEF Present
      <4> QED
        BY <4>1, <4>2
    <3>2. RowOK(d, d[u][j], D[u])
      BY <1>1, <3>1
    <3>3. d[u][j].born \in Nat
      BY <3>2 DEF RowOK, RowOf
    <3> QED
      BY <1>1, <1>10, <3>1, <3>2, <3>3 DEF RowOK
  <2> QED
    BY <2>1, <2>2
<1>13. RowsOK(e, D)
  BY <1>7, <1>10, <1>12 DEF RowsOK
<1>14. \A t0, i0, rev : Written(d, e, t0, i0, rev)
  <2>1. \A u \in Tables : \A j \in Present(d, u) : j \in Present(e, u) /\ e[u][j] = d[u][j]
    <3>1. SUFFICES ASSUME NEW u \in Tables, NEW j \in Present(d, u)
                   PROVE  j \in Present(e, u) /\ e[u][j] = d[u][j]
      OBVIOUS
    <3>2. CASE u = t
      BY <1>8, <3>2
    <3>3. CASE u # t
      BY <1>9, <3>3 DEF Present
    <3> QED
      BY <3>2, <3>3
  <2>2. \A u \in Tables : \A j \in Present(e, u) \ Present(d, u) : u = t /\ j \in S
    BY <1>8, <1>9 DEF Present
  <2> QED
    BY <1>10, <1>11, <2>1, <2>2 DEF Written, RowWritten
<1> QED
  <2>1. SameBut(d, e, t)
    BY <1>7 DEF SameBut
  <2>2. \A i \in S : e[t][i].doc = docs[i]
    BY <1>11
  <2> QED
    BY <1>8, <1>13, <1>14, <2>1, <2>2 DEF e, BatchOK

\* The constraints decide between the new database and the old one.
LEMMA ConstraintsDecide ==
  ASSUME NEW D, NEW d, DbOK(d, D), NEW e, RowsOK(e, D), NEW t, NEW i, NEW rev,
         Written(d, e, t, i, rev), Schema(e) => RefsOK(e)
  PROVE  AnswerOK(d, mapWriteError(d, e), D, t, i, rev)
<1>1. CASE Schema(e)
  BY <1>1 DEF mapWriteError, AnswerOK, Answer, DbOK
<1>2. CASE ~Schema(e)
  BY <1>2, NothingWritten DEF mapWriteError
<1> QED
  BY <1>1, <1>2

\* Tables that hold neither credentials nor links: their references are checked
\* by the constraints alone.
Plain == {"routes", "relays", "forwards", "backends", "bindings"}

LEMMA PlainReferences ==
  ASSUME NEW d, RefsOK(d), NEW t \in Plain, NEW e, SameBut(d, e, t), Schema(e)
  PROVE  RefsOK(e)
<1>1. /\ e.outbounds = d.outbounds /\ e.credentials = d.credentials
      /\ e.frontends = d.frontends /\ e.links = d.links
  BY DEF SameBut, Plain, Fields, Tables
<1>2. OutboundReferences(e) /\ LinkReferences(e)
  BY DEF Schema
<1> QED
  BY <1>1, <1>2 DEF RefsOK, Present

LEMMA CreatePlain ==
  ASSUME NEW D, NEW d, DbOK(d, D), NEW t \in Plain, NEW i \in Ids, NEW doc \in D[t],
         NEW t0, NEW i0, NEW rev
  PROVE  AnswerOK(d, Create(d, t, i, doc), D, t0, i0, rev)
<1> t \in Tables
  BY DEF Plain, Tables
<1>1. CASE i \in Present(d, t)
  BY <1>1, NothingWritten DEF Create
<1>2. CASE i \notin Present(d, t)
  <2>1. PICK e : e = Inserted(d, t, i, doc)
    OBVIOUS
  <2>2. RowsOK(e, D) /\ SameBut(d, e, t) /\ Written(d, e, t0, i0, rev)
    BY <1>2, <2>1, InsertedRow DEF DbOK
  <2>3. Schema(e) => RefsOK(e)
    BY <2>2, PlainReferences DEF DbOK
  <2> QED
    BY <1>2, <2>1, <2>2, <2>3, ConstraintsDecide DEF Create
<1> QED
  BY <1>1, <1>2

LEMMA UpdatePlain ==
  ASSUME NEW D, NEW d, DbOK(d, D), NEW t \in Plain, NEW i, NEW doc \in D[t], NEW rev
  PROVE  AnswerOK(d, Update(d, t, i, rev, doc), D, t, i, rev)
<1> t \in Tables
  BY DEF Plain, Tables
<1>1. CASE ~Current(d, t, i, rev)
  BY <1>1, NothingWritten DEF Update
<1>2. CASE Current(d, t, i, rev)
  <2>1. PICK e : e = Replaced(d, t, i, doc)
    OBVIOUS
  <2>2. RowsOK(e, D) /\ SameBut(d, e, t) /\ Written(d, e, t, i, rev)
    BY <1>2, <2>1, ReplacedRow DEF DbOK
  <2>3. Schema(e) => RefsOK(e)
    BY <2>2, PlainReferences DEF DbOK
  <2> QED
    BY <1>2, <2>1, <2>2, <2>3, ConstraintsDecide DEF Update
<1> QED
  BY <1>1, <1>2

LEMMA DeletePlain ==
  ASSUME NEW D, NEW d, DbOK(d, D), NEW t \in Plain, NEW i, NEW rev
  PROVE  AnswerOK(d, Delete(d, t, i, rev), D, t, i, rev)
<1> t \in Tables
  BY DEF Plain, Tables
<1>1. CASE ~Current(d, t, i, rev)
  BY <1>1, NothingWritten DEF Delete
<1>2. CASE Current(d, t, i, rev)
  <2>1. PICK e : e = Removed(d, t, i)
    OBVIOUS
  <2>2. RowsOK(e, D) /\ SameBut(d, e, t) /\ Written(d, e, t, i, rev)
    BY <1>2, <2>1, RemovedRow DEF DbOK
  <2>3. Schema(e) => RefsOK(e)
    BY <2>2, PlainReferences DEF DbOK
  <2> QED
    BY <1>2, <2>1, <2>2, <2>3, ConstraintsDecide DEF Delete
<1> QED
  BY <1>1, <1>2

------------------------------------------------------------------------------
(* Frontends with their links, outbounds with their credentials. *)

\* The credentials and links of a row stand beside the tables.
LEMMA SideFields ==
  ASSUME NEW D, NEW d, NEW e, RowsOK(e, D), NEW t, NEW i, NEW rev, Written(d, e, t, i, rev),
         NEW n, DOMAIN n = Fields, \A g \in Tables \cup {"births"} : n[g] = e[g]
  PROVE  RowsOK(n, D) /\ Written(d, n, t, i, rev)
<1>1. n.births = e.births /\ \A u \in Tables : n[u] = e[u]
  OBVIOUS
<1>2. RowsOK(n, D)
  BY <1>1 DEF RowsOK, RowOK, Present
<1>3. Written(d, n, t, i, rev)
  BY <1>1 DEF Written, RowWritten, Present
<1> QED
  BY <1>2, <1>3

\* What the references of the other tables rest on.
LEMMA FrontendReferences ==
  ASSUME NEW d, RefsOK(d), NEW n, NEW i, Schema(n),
         \A g \in Fields \ {"frontends", "links", "births"} : n[g] = d[g],
         DOMAIN n.links = Present(n, "frontends"),
         \A f \in Present(n, "frontends") : n.links[f] = n.frontends[f].doc.backends
  PROVE  RefsOK(n)
<1>1. n.outbounds = d.outbounds /\ n.credentials = d.credentials
  BY DEF Fields, Tables
<1> QED
  BY <1>1 DEF RefsOK, Present, Schema

LEMMA CreateFrontendOK ==
  ASSUME NEW D, NEW d, DbOK(d, D), NEW i \in Ids, NEW doc \in D["frontends"],
         NEW t0, NEW i0, NEW rev
  PROVE  AnswerOK(d, CreateHAProxyFrontend(d, i, doc), D, t0, i0, rev)
<1>1. CASE ~ValidFrontend(doc) \/ i \in Present(d, "frontends")
  BY <1>1, NothingWritten DEF CreateHAProxyFrontend
<1>2. CASE ValidFrontend(doc) /\ i \notin Present(d, "frontends")
  <2> "frontends" \in Tables /\ "links" \in Fields \ {"frontends", "births"}
    BY DEF Tables, Fields
  <2>1. PICK e : e = Inserted(d, "frontends", i, doc)
    OBVIOUS
  <2>2. /\ RowsOK(e, D) /\ SameBut(d, e, "frontends") /\ Written(d, e, t0, i0, rev)
        /\ Present(e, "frontends") = Present(d, "frontends") \cup {i}
        /\ e.frontends[i].doc = doc
        /\ \A j \in Present(d, "frontends") : e.frontends[j] = d.frontends[j]
    BY <1>2, <2>1, InsertedRow DEF DbOK
  <2>3. PICK l : l = WithRow(e.links, i, doc.backends)
    OBVIOUS
  <2>4. PICK n : n = [e EXCEPT !.links = l]
    OBVIOUS
  <2>5. /\ RowsOK(n, D) /\ Written(d, n, t0, i0, rev) /\ n.links = l
        /\ \A g \in Fields \ {"links"} : n[g] = e[g]
    <3>1. DOMAIN e = Fields /\ "links" \in Fields
      BY <2>2 DEF RowsOK
    <3>2. DOMAIN n = Fields /\ n.links = l /\ \A g \in Fields \ {"links"} : n[g] = e[g]
      BY <2>4, <3>1
    <3>3. \A g \in Tables \cup {"births"} : n[g] = e[g]
      BY <3>2 DEF Fields, Tables
    <3> QED
      BY <2>2, <3>2, <3>3, SideFields
  <2>6. e.links = d.links /\ n.frontends = e.frontends
    BY <2>2, <2>5 DEF SameBut, Fields, Tables
  <2>7. DOMAIN d.links = Present(d, "frontends")
        /\ \A f \in Present(d, "frontends") : d.links[f] = d.frontends[f].doc.backends
    BY DEF DbOK, RefsOK
  <2>8. /\ DOMAIN n.links = Present(n, "frontends")
        /\ \A f \in Present(n, "frontends") : n.links[f] = n.frontends[f].doc.backends
    BY <2>2, <2>3, <2>5, <2>6, <2>7 DEF WithRow, Present
  <2>9. \A g \in Fields \ {"frontends", "links", "births"} : n[g] = d[g]
    BY <2>2, <2>5 DEF SameBut
  <2>10. Schema(n) => RefsOK(n)
    BY <2>8, <2>9, FrontendReferences DEF DbOK
  <2>11. n = replaceHAProxyFrontendBackends(e, i, doc)
    BY <2>3, <2>4 DEF replaceHAProxyFrontendBackends
  <2> QED
    BY <1>2, <2>1, <2>5, <2>10, <2>11, ConstraintsDecide DEF CreateHAProxyFrontend
<1> QED
  BY <1>1, <1>2

LEMMA UpdateFrontendOK ==
  ASSUME NEW D, NEW d, DbOK(d, D), NEW i, NEW doc \in D["frontends"], NEW rev
  PROVE  AnswerOK(d, UpdateHAProxyFrontend(d, i, rev, doc), D, "frontends", i, rev)
<1>1. CASE ~ValidFrontend(doc) \/ ~Current(d, "frontends", i, rev)
  BY <1>1, NothingWritten DEF UpdateHAProxyFrontend
<1>2. CASE ValidFrontend(doc) /\ Current(d, "frontends", i, rev)
  <2> "frontends" \in Tables /\ "links" \in Fields \ {"frontends", "births"}
    BY DEF Tables, Fields
  <2>1. PICK e : e = Replaced(d, "frontends", i, doc)
    OBVIOUS
  <2>2. /\ RowsOK(e, D) /\ SameBut(d, e, "frontends") /\ Written(d, e, "frontends", i, rev)
        /\ Present(e, "frontends") = Present(d, "frontends")
        /\ e.frontends[i].doc = doc
        /\ \A j \in Present(d, "frontends") \ {i} : e.frontends[j] = d.frontends[j]
    BY <1>2, <2>1, ReplacedRow DEF DbOK
  <2>3. PICK l : l = WithRow(e.links, i, doc.backends)
    OBVIOUS
  <2>4. PICK n : n = [e EXCEPT !.links = l]
    OBVIOUS
  <2>5. /\ RowsOK(n, D) /\ Written(d, n, "frontends", i, rev) /\ n.links = l
        /\ \A g \in Fields \ {"links"} : n[g] = e[g]
    <3>1. DOMAIN e = Fields /\ "links" \in Fields
      BY <2>2 DEF RowsOK
    <3>2. DOMAIN n = Fields /\ n.links = l /\ \A g \in Fields \ {"links"} : n[g] = e[g]
      BY <2>4, <3>1
    <3>3. \A g \in Tables \cup {"births"} : n[g] = e[g]
      BY <3>2 DEF Fields, Tables
    <3> QED
      BY <2>2, <3>2, <3>3, SideFields
  <2>6. e.links = d.links /\ n.frontends = e.frontends
    BY <2>2, <2>5 DEF SameBut, Fields, Tables
  <2>7. /\ DOMAIN d.links = Present(d, "frontends")
        /\ \A f \in Present(d, "frontends") : d.links[f] = d.frontends[f].doc.backends
        /\ i \in Present(d, "frontends")
    BY <1>2 DEF DbOK, RefsOK, Current
  <2>8. /\ DOMAIN n.links = Present(n, "frontends")
        /\ \A f \in Present(n, "frontends") : n.links[f] = n.frontends[f].doc.backends
    BY <2>2, <2>3, <2>5, <2>6, <2>7 DEF WithRow, Present
  <2>9. \A g \in Fields \ {"frontends", "links", "births"} : n[g] = d[g]
    BY <2>2, <2>5 DEF SameBut
  <2>10. Schema(n) => RefsOK(n)
    BY <2>8, <2>9, FrontendReferences DEF DbOK
  <2>11. n = replaceHAProxyFrontendBackends(e, i, doc)
    BY <2>3, <2>4 DEF replaceHAProxyFrontendBackends
  <2> QED
    BY <1>2, <2>1, <2>5, <2>10, <2>11, ConstraintsDecide DEF UpdateHAProxyFrontend
<1> QED
  BY <1>1, <1>2

\* A deleted frontend takes its links along; nothing refers to a frontend.
LEMMA DeleteFrontendOK ==
  ASSUME NEW D, NEW d, DbOK(d, D), NEW i, NEW rev
  PROVE  AnswerOK(d, DeleteHAProxyFrontend(d, i, rev), D, "frontends", i, rev)
<1>1. CASE ~Current(d, "frontends", i, rev)
  BY <1>1, NothingWritten DEF DeleteHAProxyFrontend
<1>2. CASE Current(d, "frontends", i, rev)
  <2> "frontends" \in Tables /\ "links" \in Fields \ {"frontends", "births"}
    BY DEF Tables, Fields
  <2>1. PICK e : e = Removed(d, "frontends", i)
    OBVIOUS
  <2>2. /\ RowsOK(e, D) /\ SameBut(d, e, "frontends") /\ Written(d, e, "frontends", i, rev)
        /\ Present(e, "frontends") = Present(d, "frontends") \ {i}
        /\ \A j \in Present(d, "frontends") \ {i} : e.frontends[j] = d.frontends[j]
    BY <1>2, <2>1, RemovedRow DEF DbOK
  <2>3. PICK l : l = Restrict(e.links, DOMAIN e.links \ {i})
    OBVIOUS
  <2>4. PICK n : n = [e EXCEPT !.links = l]
    OBVIOUS
  <2>5. /\ RowsOK(n, D) /\ Written(d, n, "frontends", i, rev) /\ n.links = l
        /\ \A g \in Fields \ {"links"} : n[g] = e[g]
    <3>1. DOMAIN e = Fields /\ "links" \in Fields
      BY <2>2 DEF RowsOK
    <3>2. DOMAIN n = Fields /\ n.links = l /\ \A g \in Fields \ {"links"} : n[g] = e[g]
      BY <2>4, <3>1
    <3>3. \A g \in Tables \cup {"births"} : n[g] = e[g]
      BY <3>2 DEF Fields, Tables
    <3> QED
      BY <2>2, <3>2, <3>3, SideFields
  <2>6. /\ e.links = d.links /\ n.frontends = e.frontends
        /\ n.outbounds = d.outbounds /\ n.credentials = d.credentials
        /\ n.routes = d.routes /\ n.relays = d.relays /\ n.backends = d.backends
    BY <2>2, <2>5 DEF SameBut, Fields, Tables
  <2>7. RefsOK(d)
    BY DEF DbOK
  <2>8. /\ DOMAIN n.links = Present(n, "frontends")
        /\ \A f \in Present(n, "frontends") : n.links[f] = n.frontends[f].doc.backends
    BY <2>2, <2>3, <2>5, <2>6, <2>7 DEF Restrict, Present, RefsOK
  <2>9. OutboundReferences(n)
    BY <2>6, <2>7 DEF RefsOK, OutboundReferences, Present
  <2>10. LinkReferences(n)
    BY <2>3, <2>5, <2>6, <2>7 DEF RefsOK, LinkReferences, Present, Restrict
  <2>11. RefsOK(n)
    BY <2>6, <2>7, <2>8, <2>9, <2>10 DEF RefsOK, Present
  <2>12. DeleteHAProxyFrontend(d, i, rev).db = n
    BY <1>2, <2>1, <2>3, <2>4 DEF DeleteHAProxyFrontend, Answer
  <2> QED
    BY <2>5, <2>11, <2>12 DEF AnswerOK, DbOK
<1> QED
  BY <1>1, <1>2

\* Rows of outbounds that are new, with the credentials made for them.
LEMMA OutboundReferencesKept ==
  ASSUME NEW d, RefsOK(d), NEW n,
         \A g \in Fields \ {"outbounds", "credentials", "births"} : n[g] = d[g],
         OutboundReferences(n),
         DOMAIN n.credentials = Present(n, "outbounds"),
         \A i \in Present(n, "outbounds") : n.credentials[i] = n.outbounds[i].doc.shape
  PROVE  RefsOK(n)
<1>1. n.frontends = d.frontends /\ n.links = d.links /\ n.backends = d.backends
  BY DEF Fields, Tables
<1> QED
  BY <1>1 DEF RefsOK, Present, LinkReferences

\* The references of routes and relays do not see the credentials.
LEMMA ReferencesOfTables ==
  ASSUME NEW e, NEW n, \A g \in Tables : n[g] = e[g], OutboundReferences(e)
  PROVE  OutboundReferences(n)
  BY DEF OutboundReferences, Present, Tables

LEMMA CreateOutboundOK ==
  ASSUME NEW D, NEW d, DbOK(d, D), NEW i \in Ids, NEW doc \in D["outbounds"],
         NEW t0, NEW i0, NEW rev
  PROVE  AnswerOK(d, CreateOutbound(d, i, doc, doc.shape), D, t0, i0, rev)
<1> "outbounds" \in Tables /\ "credentials" \in Fields \ {"outbounds", "births"}
  BY DEF Tables, Fields
<1>1. PICK e : e = Inserted(d, "outbounds", i, doc)
  OBVIOUS
<1>2. CASE i \in Present(d, "outbounds") \/ ~Schema(e)
  <2>1. CreateOutbound(d, i, doc, doc.shape) = Answer(d, "conflict")
    BY <1>1, <1>2 DEF CreateOutbound, Create, mapWriteError, Answer, WithCredential
  <2> QED
    BY <2>1, NothingWritten
<1>3. CASE i \notin Present(d, "outbounds") /\ Schema(e)
  <2>2. /\ RowsOK(e, D) /\ SameBut(d, e, "outbounds") /\ Written(d, e, t0, i0, rev)
        /\ Present(e, "outbounds") = Present(d, "outbounds") \cup {i}
        /\ e.outbounds[i].doc = doc
        /\ \A j \in Present(d, "outbounds") : e.outbounds[j] = d.outbounds[j]
    BY <1>3, <1>1, InsertedRow DEF DbOK
  <2>3. PICK l : l = WithRow(e.credentials, i, doc.shape)
    OBVIOUS
  <2>4. PICK n : n = [e EXCEPT !.credentials = l]
    OBVIOUS
  <2>5. /\ RowsOK(n, D) /\ Written(d, n, t0, i0, rev) /\ n.credentials = l
        /\ \A g \in Fields \ {"credentials"} : n[g] = e[g]
    <3>1. DOMAIN e = Fields /\ "credentials" \in Fields
      BY <2>2 DEF RowsOK
    <3>2. DOMAIN n = Fields /\ n.credentials = l
          /\ \A g \in Fields \ {"credentials"} : n[g] = e[g]
      BY <2>4, <3>1
    <3>3. \A g \in Tables \cup {"births"} : n[g] = e[g]
      BY <3>2 DEF Fields, Tables
    <3> QED
      BY <2>2, <3>2, <3>3, SideFields
  <2>6. e.credentials = d.credentials /\ n.outbounds = e.outbounds
    BY <2>2, <2>5 DEF SameBut, Fields, Tables
  <2>7. /\ DOMAIN d.credentials = Present(d, "outbounds")
        /\ \A j \in Present(d, "outbounds") : d.credentials[j] = d.outbounds[j].doc.shape
    BY DEF DbOK, RefsOK
  <2>8. /\ DOMAIN n.credentials = Present(n, "outbounds")
        /\ \A j \in Present(n, "outbounds") : n.credentials[j] = n.outbounds[j].doc.shape
    BY <2>2, <2>3, <2>5, <2>6, <2>7 DEF WithRow, Present
  <2>9. \A g \in Fields \ {"outbounds", "credentials", "births"} : n[g] = d[g]
    BY <2>2, <2>5 DEF SameBut
  <2>10. OutboundReferences(n)
    <3>1. \A g \in Tables : n[g] = e[g]
      BY <2>5 DEF Fields, Tables
    <3> QED
      BY <1>3, <3>1, ReferencesOfTables DEF Schema
  <2>11. RefsOK(n)
    BY <2>8, <2>9, <2>10, OutboundReferencesKept DEF DbOK
  <2>12. CreateOutbound(d, i, doc, doc.shape).db = n
    <3>1. Create(d, "outbounds", i, doc) = Answer(e, "none")
      BY <1>1, <1>3 DEF Create, mapWriteError
    <3>2. Answer(e, "none").err = "none" /\ Answer(e, "none").db = e
      BY DEF Answer
    <3>3. CreateOutbound(d, i, doc, doc.shape)
            = Answer([e EXCEPT !.credentials = WithRow(@, i, doc.shape)], "none")
      BY <3>1, <3>2 DEF CreateOutbound, WithCredential
    <3> QED
      BY <2>3, <2>4, <3>3 DEF Answer
  <2> QED
    BY <2>5, <2>11, <2>12 DEF AnswerOK, DbOK
<1> QED
  BY <1>2, <1>3

\* A batch is stored with the credentials of all its rows, or not at all.
LEMMA CreateOutboundsOK ==
  ASSUME NEW D, NEW d, DbOK(d, D), NEW S \in SUBSET Ids, NEW inputs, DOMAIN inputs = S,
         \A i \in S : /\ inputs[i].doc \in D["outbounds"]
                      /\ inputs[i].credential = inputs[i].doc.shape,
         NEW t0, NEW i0, NEW rev
  PROVE  AnswerOK(d, CreateOutbounds(d, inputs), D, t0, i0, rev)
<1> "outbounds" \in Tables /\ "credentials" \in Fields \ {"outbounds", "births"}
  BY DEF Tables, Fields
<1>1. CASE S \cap Present(d, "outbounds") # {}
  BY <1>1, NothingWritten DEF CreateOutbounds
<1>2. CASE S \cap Present(d, "outbounds") = {}
  <2>0. PICK docs : docs = [i \in S |-> inputs[i].doc]
    OBVIOUS
  <2>1. PICK e : e = InsertedRows(d, "outbounds", docs)
    OBVIOUS
  <2>2. /\ RowsOK(e, D) /\ SameBut(d, e, "outbounds") /\ Written(d, e, t0, i0, rev)
        /\ Present(e, "outbounds") = Present(d, "outbounds") \cup S
        /\ \A i \in S : e.outbounds[i].doc = inputs[i].doc
        /\ \A j \in Present(d, "outbounds") : e.outbounds[j] = d.outbounds[j]
    <3>1. docs \in [S -> D["outbounds"]] /\ \A i \in S : docs[i] = inputs[i].doc
      BY <2>0
    <3>2. BatchOK(d, e, D, "outbounds", S, docs)
      BY <1>2, <2>1, <3>1, InsertedBatch DEF DbOK
    <3> QED
      BY <3>1, <3>2 DEF BatchOK
  <2>3. PICK l : l = WithRows(e.credentials, [i \in S |-> inputs[i].credential])
    OBVIOUS
  <2>4. PICK n : n = [e EXCEPT !.credentials = l]
    OBVIOUS
  <2>5. /\ RowsOK(n, D) /\ Written(d, n, t0, i0, rev) /\ n.credentials = l
        /\ \A g \in Fields \ {"credentials"} : n[g] = e[g]
    <3>1. DOMAIN e = Fields /\ "credentials" \in Fields
      BY <2>2 DEF RowsOK
    <3>2. DOMAIN n = Fields /\ n.credentials = l
          /\ \A g \in Fields \ {"credentials"} : n[g] = e[g]
      BY <2>4, <3>1
    <3>3. \A g \in Tables \cup {"births"} : n[g] = e[g]
      BY <3>2 DEF Fields, Tables
    <3> QED
      BY <2>2, <3>2, <3>3, SideFields
  <2>6. e.credentials = d.credentials /\ n.outbounds = e.outbounds
    BY <2>2, <2>5 DEF SameBut, Fields, Tables
  <2>7. /\ DOMAIN d.credentials = Present(d, "outbounds")
        /\ \A j \in Present(d, "outbounds") : d.credentials[j] = d.outbounds[j].doc.shape
    BY DEF DbOK, RefsOK
  <2>8. /\ DOMAIN n.credentials = Present(n, "outbounds")
        /\ \A j \in Present(n, "outbounds") : n.credentials[j] = n.outbounds[j].doc.shape
    BY <1>2, <2>2, <2>3, <2>5, <2>6, <2>7 DEF WithRows, Present
  <2>9. \A g \in Fields \ {"outbounds", "credentials", "births"} : n[g] = d[g]
    BY <2>2, <2>5 DEF SameBut
  <2>10. Schema(n) => RefsOK(n)
    BY <2>8, <2>9, OutboundReferencesKept DEF DbOK, Schema
  <2>11. CreateOutbounds(d, inputs) = mapWriteError(d, n)
    <3>1. [e EXCEPT !.credentials = WithRows(@, [i \in S |-> inputs[i].credential])] = n
      BY <2>3, <2>4
    <3> QED
      BY <1>2, <2>0, <2>1, <3>1 DEF CreateOutbounds
  <2> QED
    BY <2>5, <2>10, <2>11, ConstraintsDecide
<1> QED
  BY <1>1, <1>2

LEMMA UpdateOutboundOK ==
  ASSUME NEW D, NEW d, DbOK(d, D), NEW i, NEW doc \in D["outbounds"], NEW rev
  PROVE  AnswerOK(d, UpdateOutbound(d, i, rev, doc), D, "outbounds", i, rev)
<1> "outbounds" \in Tables
  BY DEF Tables
<1>1. CASE ~Current(d, "outbounds", i, rev) \/ ~sameCredentialShape(d.outbounds[i].doc, doc)
  <2>1. PICK err : UpdateOutbound(d, i, rev, doc) = Answer(d, err)
    BY <1>1 DEF UpdateOutbound
  <2> QED
    BY <2>1, NothingWritten
<1>2. CASE Current(d, "outbounds", i, rev) /\ sameCredentialShape(d.outbounds[i].doc, doc)
  <2>1. PICK e : e = Replaced(d, "outbounds", i, doc)
    OBVIOUS
  <2>2. /\ RowsOK(e, D) /\ SameBut(d, e, "outbounds") /\ Written(d, e, "outbounds", i, rev)
        /\ Present(e, "outbounds") = Present(d, "outbounds")
        /\ e.outbounds[i].doc = doc
        /\ \A j \in Present(d, "outbounds") \ {i} : e.outbounds[j] = d.outbounds[j]
    BY <1>2, <2>1, ReplacedRow DEF DbOK
  <2>3. /\ DOMAIN d.credentials = Present(d, "outbounds")
        /\ \A j \in Present(d, "outbounds") : d.credentials[j] = d.outbounds[j].doc.shape
        /\ e.credentials = d.credentials
    BY <2>2 DEF DbOK, RefsOK, SameBut, Fields, Tables
  <2>4. /\ DOMAIN e.credentials = Present(e, "outbounds")
        /\ \A j \in Present(e, "outbounds") : e.credentials[j] = e.outbounds[j].doc.shape
    BY <1>2, <2>2, <2>3 DEF sameCredentialShape
  <2>5. Schema(e) => RefsOK(e)
    BY <2>2, <2>4, OutboundReferencesKept DEF DbOK, Schema, SameBut
  <2>6. UpdateOutbound(d, i, rev, doc) = mapWriteError(d, e)
    BY <1>2, <2>1 DEF UpdateOutbound, Update
  <2> QED
    BY <2>2, <2>5, <2>6, ConstraintsDecide
<1> QED
  BY <1>1, <1>2

\* An outbound that a route or relay names stays, credential and all.
LEMMA DeleteOutboundOK ==
  ASSUME NEW D, NEW d, DbOK(d, D), NEW i, NEW rev
  PROVE  AnswerOK(d, DeleteOutbound(d, i, rev), D, "outbounds", i, rev)
<1> "outbounds" \in Tables /\ "credentials" \in Fields \ {"outbounds", "births"}
  BY DEF Tables, Fields
<1>1. PICK e : e = Removed(d, "outbounds", i)
  OBVIOUS
<1>2. CASE ~Current(d, "outbounds", i, rev) \/ ~Schema(e)
  <2>1. DeleteOutbound(d, i, rev) = Answer(d, "conflict")
    BY <1>1, <1>2 DEF DeleteOutbound, Delete, mapWriteError, Answer
  <2> QED
    BY <2>1, NothingWritten
<1>3. CASE Current(d, "outbounds", i, rev) /\ Schema(e)
  <2>2. /\ RowsOK(e, D) /\ SameBut(d, e, "outbounds") /\ Written(d, e, "outbounds", i, rev)
        /\ Present(e, "outbounds") = Present(d, "outbounds") \ {i}
        /\ \A j \in Present(d, "outbounds") \ {i} : e.outbounds[j] = d.outbounds[j]
    BY <1>3, <1>1, RemovedRow DEF DbOK
  <2>3. PICK l : l = Restrict(e.credentials, DOMAIN e.credentials \ {i})
    OBVIOUS
  <2>4. PICK n : n = [e EXCEPT !.credentials = l]
    OBVIOUS
  <2>5. /\ RowsOK(n, D) /\ Written(d, n, "outbounds", i, rev) /\ n.credentials = l
        /\ \A g \in Fields \ {"credentials"} : n[g] = e[g]
    <3>1. DOMAIN e = Fields /\ "credentials" \in Fields
      BY <2>2 DEF RowsOK
    <3>2. DOMAIN n = Fields /\ n.credentials = l
          /\ \A g \in Fields \ {"credentials"} : n[g] = e[g]
      BY <2>4, <3>1
    <3>3. \A g \in Tables \cup {"births"} : n[g] = e[g]
      BY <3>2 DEF Fields, Tables
    <3> QED
      BY <2>2, <3>2, <3>3, SideFields
  <2>6. e.credentials = d.credentials /\ n.outbounds = e.outbounds
    BY <2>2, <2>5 DEF SameBut, Fields, Tables
  <2>7. /\ DOMAIN d.credentials = Present(d, "outbounds")
        /\ \A j \in Present(d, "outbounds") : d.credentials[j] = d.outbounds[j].doc.shape
    BY DEF DbOK, RefsOK
  <2>8. /\ DOMAIN n.credentials = Present(n, "outbounds")
        /\ \A j \in Present(n, "outbounds") : n.credentials[j] = n.outbounds[j].doc.shape
    BY <2>2, <2>3, <2>5, <2>6, <2>7 DEF Restrict, Present
  <2>9. \A g \in Fields \ {"outbounds", "credentials", "births"} : n[g] = d[g]
    BY <2>2, <2>5 DEF SameBut
  <2>10. OutboundReferences(n)
    <3>1. \A g \in Tables : n[g] = e[g]
      BY <2>5 DEF Fields, Tables
    <3> QED
      BY <1>3, <3>1, ReferencesOfTables DEF Schema
  <2>11. RefsOK(n)
    BY <2>8, <2>9, <2>10, OutboundReferencesKept DEF DbOK
  <2>12. DeleteOutbound(d, i, rev).db = n
    <3>1. Delete(d, "outbounds", i, rev) = Answer(e, "none")
      BY <1>1, <1>3 DEF Delete, mapWriteError
    <3>2. Answer(e, "none").err = "none" /\ Answer(e, "none").db = e
      BY DEF Answer
    <3>3. DeleteOutbound(d, i, rev)
            = Answer([e EXCEPT !.credentials = Restrict(@, DOMAIN @ \ {i})], "none")
      BY <3>1, <3>2 DEF DeleteOutbound
    <3> QED
      BY <2>3, <2>4, <3>3 DEF Answer
  <2> QED
    BY <2>5, <2>11, <2>12 DEF AnswerOK, DbOK
<1> QED
  BY <1>2, <1>3

\* A clone gets the credential of its source, whose shape it has.
LEMMA CloneOutboundOK ==
  ASSUME NEW D, NEW d, DbOK(d, D), NEW source, NEW revision, NEW i \in Ids,
         NEW doc \in D["outbounds"], NEW t0, NEW i0, NEW rev
  PROVE  AnswerOK(d, CloneOutbound(d, source, revision, i, doc), D, t0, i0, rev)
<1>1. CASE \/ source = i \/ ~Current(d, "outbounds", source, revision)
           \/ source \notin DOMAIN d.credentials
           \/ ~sameCredentialShape(d.outbounds[source].doc, doc)
  <2>1. PICK err : CloneOutbound(d, source, revision, i, doc) = Answer(d, err)
    BY <1>1 DEF CloneOutbound
  <2> QED
    BY <2>1, NothingWritten
<1>2. CASE /\ source # i /\ Current(d, "outbounds", source, revision)
           /\ source \in DOMAIN d.credentials
           /\ sameCredentialShape(d.outbounds[source].doc, doc)
  <2>1. d.credentials[source] = doc.shape
    BY <1>2 DEF DbOK, RefsOK, sameCredentialShape
  <2>2. CloneOutbound(d, source, revision, i, doc) = CreateOutbound(d, i, doc, doc.shape)
    BY <1>2, <2>1 DEF CloneOutbound
  <2> QED
    BY <2>2, CreateOutboundOK
<1> QED
  BY <1>1, <1>2

------------------------------------------------------------------------------
(* What the panel starts with. *)

Less == {pair \in Nat \X Nat : pair[1] < pair[2]}

\* A set of numbers with a member has a least one.
LEMMA LeastElement ==
    ASSUME NEW S, S \subseteq Nat, S # {} PROVE \E m \in S : \A n \in S : m <= n
<1>1. IsWellFoundedOn(Less, Nat)
  BY NatLessThanWellFounded DEF OpToRel, Less
<1>2. PICK m \in S : \A n \in S : <<n, m>> \notin Less
  BY <1>1, WFMin
<1>3. ASSUME NEW n \in S PROVE m <= n
  <2>1. <<n, m>> \in Nat \X Nat /\ <<n, m>>[1] = n /\ <<n, m>>[2] = m
    OBVIOUS
  <2>2. ~(n < m)
    BY <1>2, <2>1 DEF Less
  <2> QED
    BY <2>2
<1> QED
  BY <1>3

LEMMA FirstIsAnId == First \in Ids
  BY LeastElement, IdsAreNumbers DEF First

\* The documents an administrator may ask for, by table.
LEMMA DocumentsOfTables ==
  /\ Docs["outbounds"] = OutboundDocs /\ Docs["routes"] = RouteDocs
  /\ Docs["relays"] = RelayDocs /\ Docs["forwards"] = NamedDocs
  /\ Docs["backends"] = NamedDocs /\ Docs["frontends"] = FrontendDocs
  /\ Docs["bindings"] = BindingDocs
  BY DEF Docs

LEMMA EmptyIsWhole == ASSUME NEW D PROVE DbOK(Empty, D)
<1>1. DOMAIN Empty = Fields /\ Empty.births = 0
  BY DEF Empty, Fields, Tables
<1>2. \A f \in Fields \ {"births"} : Empty[f] = <<>>
  BY DEF Empty, Fields, Tables
<1>3. \A table \in Tables : Present(Empty, table) = {}
  BY <1>2 DEF Present, Fields, Tables
<1>4. RowsOK(Empty, D)
  BY <1>1, <1>3 DEF RowsOK
<1>5. DOMAIN Empty.credentials = {} /\ DOMAIN Empty.links = {}
  BY DEF Empty
<1>6. RefsOK(Empty)
  BY <1>3, <1>5 DEF RefsOK, OutboundReferences, LinkReferences, Tables
<1> QED
  BY <1>4, <1>6 DEF DbOK

LEMMA ImportedDocument ==
  ASSUME NEW i \in Ids, NEW name \in Names
  PROVE  /\ ImportedDoc(i, name) \in Docs["outbounds"]
         /\ ImportedShape[i] = ImportedDoc(i, name).shape
  BY DocumentsOfTables DEF ImportedDoc, OutboundDocs, Shapes, Healths

LEMMA SeedOutboundsAreWhole == DbOK(SeedOutbounds, Docs)
<1>1. PICK inputs : inputs = [i \in Ids |-> [doc        |-> ImportedDoc(i, InitialName[i]),
                                            credential |-> ImportedShape[i]]]
  OBVIOUS
<1>2. \A i \in Ids : /\ inputs[i].doc = ImportedDoc(i, InitialName[i])
                     /\ inputs[i].credential = ImportedShape[i]
  BY <1>1
<1>3. DOMAIN inputs = Ids
      /\ \A i \in Ids : /\ inputs[i].doc \in Docs["outbounds"]
                        /\ inputs[i].credential = inputs[i].doc.shape
  BY <1>1, <1>2, ImportedDocument, NamesAreGiven
<1>4. AnswerOK(Empty, CreateOutbounds(Empty, inputs), Docs, "routes", 0, 0)
  BY <1>3, EmptyIsWhole, CreateOutboundsOK
<1> QED
  BY <1>1, <1>4 DEF AnswerOK, SeedOutbounds

LEMMA SeedBackendsAreWhole == DbOK(SeedBackends, Docs)
<1>1. PICK docs : docs = [i \in Ids |-> [name |-> InitialName[i], enabled |-> TRUE]]
  OBVIOUS
<1>2. docs \in [Ids -> Docs["backends"]]
  <2>1. \A i \in Ids : [name |-> InitialName[i], enabled |-> TRUE] \in NamedDocs
    BY NamesAreGiven DEF NamedDocs
  <2> QED
    BY <1>1, <2>1, DocumentsOfTables
<1>3. SeedBackends = InsertedRows(Empty, "backends", docs)
  BY <1>1 DEF SeedBackends
<1>4. RowsOK(Empty, Docs) /\ RefsOK(Empty)
  BY EmptyIsWhole DEF DbOK
<1>5. "backends" \in Tables /\ Ids \cap Present(Empty, "backends") = {}
  BY DEF Tables, Present, Empty
<1>6. BatchOK(Empty, SeedBackends, Docs, "backends", Ids, docs)
  BY <1>2, <1>3, <1>4, <1>5, InsertedBatch
<1>7. SameBut(Empty, SeedBackends, "backends")
  BY <1>6 DEF BatchOK
<1>8. /\ SeedBackends.outbounds = <<>> /\ SeedBackends.credentials = <<>>
      /\ SeedBackends.routes = <<>> /\ SeedBackends.relays = <<>>
      /\ SeedBackends.frontends = <<>> /\ SeedBackends.links = <<>>
  BY <1>7 DEF SameBut, Fields, Tables, Empty
<1>9. RefsOK(SeedBackends)
  BY <1>8 DEF RefsOK, OutboundReferences, LinkReferences, Present
<1> QED
  BY <1>6, <1>9 DEF BatchOK, DbOK

\* Every group starts with whole tables.
LEMMA SeedsAreWhole == ASSUME NEW d \in Seeds PROVE DbOK(d, Docs)
<1>1. CASE "routes" \in group.tables
  <2>1. PICK doc \in RouteDocs : d = CreateRoute(SeedOutbounds, First, doc).db
    BY <1>1 DEF Seeds
  <2>2. AnswerOK(SeedOutbounds, Create(SeedOutbounds, "routes", First, doc), Docs, "routes", 0, 0)
    BY SeedOutboundsAreWhole, FirstIsAnId, DocumentsOfTables, CreatePlain DEF Plain
  <2> QED
    BY <2>1, <2>2, SeedOutboundsAreWhole DEF CreateRoute, AnswerOK, Answer
<1>2. CASE "routes" \notin group.tables /\ "relays" \in group.tables
  <2>1. PICK doc \in RelayDocs : d = CreateRelay(SeedOutbounds, First, doc).db
    BY <1>2 DEF Seeds
  <2>2. AnswerOK(SeedOutbounds, Create(SeedOutbounds, "relays", First, doc), Docs, "relays", 0, 0)
    BY SeedOutboundsAreWhole, FirstIsAnId, DocumentsOfTables, CreatePlain DEF Plain
  <2> QED
    BY <2>1, <2>2 DEF CreateRelay, AnswerOK
<1>3. CASE /\ "routes" \notin group.tables /\ "relays" \notin group.tables
           /\ "frontends" \in group.tables
  <2>1. PICK doc \in FrontendDocs : d = CreateHAProxyFrontend(SeedBackends, First, doc).db
    BY <1>3 DEF Seeds
  <2>2. AnswerOK(SeedBackends, CreateHAProxyFrontend(SeedBackends, First, doc), Docs,
                 "frontends", 0, 0)
    BY SeedBackendsAreWhole, FirstIsAnId, DocumentsOfTables, CreateFrontendOK
  <2> QED
    BY <2>1, <2>2 DEF AnswerOK
<1>4. CASE /\ "routes" \notin group.tables /\ "relays" \notin group.tables
           /\ "frontends" \notin group.tables /\ "forwards" \in group.tables
  <2>1. PICK doc \in NamedDocs : d = CreatePortForward(Empty, First, doc).db
    BY <1>4 DEF Seeds
  <2>2. AnswerOK(Empty, Create(Empty, "forwards", First, doc), Docs, "forwards", 0, 0)
    BY EmptyIsWhole, FirstIsAnId, DocumentsOfTables, CreatePlain DEF Plain
  <2> QED
    BY <2>1, <2>2 DEF CreatePortForward, AnswerOK
<1>5. CASE /\ "routes" \notin group.tables /\ "relays" \notin group.tables
           /\ "frontends" \notin group.tables /\ "forwards" \notin group.tables
  <2>1. PICK doc \in BindingDocs : d = CreateXrayBinding(Empty, First, doc).db
    BY <1>5 DEF Seeds
  <2>2. AnswerOK(Empty, Create(Empty, "bindings", First, doc), Docs, "bindings", 0, 0)
    BY EmptyIsWhole, FirstIsAnId, DocumentsOfTables, CreatePlain DEF Plain
  <2> QED
    BY <2>1, <2>2 DEF CreateXrayBinding, AnswerOK
<1> QED
  BY <1>1, <1>2, <1>3, <1>4, <1>5

------------------------------------------------------------------------------
(* Pages. *)

UpTo(R, i) == {j \in R : j <= i}
FirstRows(R, n) == {i \in R : Cardinality(UpTo(R, i)) <= n}

LEMMA PageIsFirstRows ==
  ASSUME NEW d, NEW t, NEW after, NEW n
  PROVE  Page(d, t, after, n) = FirstRows({i \in Present(d, t) : i > after}, n)
  BY DEF Page, FirstRows, UpTo

LEMMA CountUpTo ==
  ASSUME NEW R \in SUBSET Ids, NEW i
  PROVE  /\ IsFiniteSet(R) /\ IsFiniteSet(UpTo(R, i))
         /\ Cardinality(UpTo(R, i)) \in Nat /\ Cardinality(R) \in Nat
         /\ Cardinality(UpTo(R, i)) <= Cardinality(R)
<1>1. IsFiniteSet(R)
  BY FS_Subset, IdsAreNumbers
<1>2. UpTo(R, i) \in SUBSET R
  BY DEF UpTo
<1>3. IsFiniteSet(UpTo(R, i)) /\ Cardinality(UpTo(R, i)) <= Cardinality(R)
  BY <1>1, <1>2, FS_Subset
<1> QED
  BY <1>1, <1>3, FS_CardinalityType

\* A later row has more rows up to it.
LEMMA CountGrows ==
  ASSUME NEW R \in SUBSET Ids, NEW i \in R, NEW j \in R, i < j
  PROVE  Cardinality(UpTo(R, i)) < Cardinality(UpTo(R, j))
<1>0. i \in Nat /\ j \in Nat /\ \A k \in R : k \in Nat
  BY IdsAreNumbers
<1>1. UpTo(R, i) \in SUBSET UpTo(R, j) /\ j \in UpTo(R, j) /\ j \notin UpTo(R, i)
  <2>1. \A k \in R : k <= i => k <= j
    BY <1>0
  <2>2. j <= j /\ ~(j <= i)
    BY <1>0
  <2> QED
    BY <2>1, <2>2 DEF UpTo
<1>2. /\ IsFiniteSet(UpTo(R, j)) /\ Cardinality(UpTo(R, j)) \in Nat
      /\ Cardinality(UpTo(R, i)) \in Nat
  BY CountUpTo
<1>3. /\ Cardinality(UpTo(R, i)) <= Cardinality(UpTo(R, j))
      /\ Cardinality(UpTo(R, j)) = Cardinality(UpTo(R, i)) => UpTo(R, j) = UpTo(R, i)
  BY <1>1, <1>2, FS_Subset
<1> QED
  BY <1>1, <1>2, <1>3

\* Every set of rows that is not empty has a last one.
LEMMA LastRow ==
  ASSUME NEW R \in SUBSET Ids, R # {}
  PROVE  \E m \in R : \A n \in R : n <= m
<1> DEFINE left(i) == Cardinality(R) - Cardinality(UpTo(R, i))
           S == {left(i) : i \in R}
<1>1. \A i \in R : left(i) \in Nat
  BY CountUpTo
<1>2. PICK m \in R : \A n \in R : left(m) <= left(n)
  <2>1. S \subseteq Nat /\ S # {}
    BY <1>1
  <2>2. PICK l \in S : \A k \in S : l <= k
    <3> HIDE DEF S
    <3> QED
      BY <2>1, LeastElement
  <2> QED
    BY <2>2
<1>3. ASSUME NEW n \in R PROVE n <= m
  <2>1. SUFFICES ASSUME m < n PROVE FALSE
    BY IdsAreNumbers
  <2>2. Cardinality(UpTo(R, m)) < Cardinality(UpTo(R, n))
    BY <2>1, CountGrows
  <2>3. Cardinality(UpTo(R, m)) \in Nat /\ Cardinality(UpTo(R, n)) \in Nat /\ Cardinality(R) \in Nat
    BY CountUpTo
  <2> QED
    BY <1>2, <2>2, <2>3
<1> QED
  BY <1>3

\* A page leaves out nothing between its rows.
LEMMA PageHasNoGaps ==
  ASSUME NEW R \in SUBSET Ids, NEW n \in Nat, NEW k \in FirstRows(R, n), NEW i \in R, i <= k
  PROVE  i \in FirstRows(R, n)
<1>1. CASE i = k
  BY <1>1
<1>2. CASE i # k
  <2>1. k \in R /\ Cardinality(UpTo(R, k)) <= n
    BY DEF FirstRows
  <2>2. Cardinality(UpTo(R, i)) < Cardinality(UpTo(R, k))
    BY <1>2, <2>1, CountGrows, IdsAreNumbers
  <2>3. Cardinality(UpTo(R, i)) \in Nat /\ Cardinality(UpTo(R, k)) \in Nat
    BY CountUpTo
  <2> QED
    BY <2>1, <2>2, <2>3 DEF FirstRows
<1> QED
  BY <1>1, <1>2

\* A page of rows has a first row.
LEMMA PageIsNotEmpty ==
  ASSUME NEW R \in SUBSET Ids, R # {}, NEW n \in Nat \ {0}
  PROVE  FirstRows(R, n) # {}
<1>1. PICK m \in R : \A k \in R : m <= k
  BY LeastElement, IdsAreNumbers
<1>2. UpTo(R, m) = {m}
  <2>1. \A k \in R : k \in Nat
    BY IdsAreNumbers
  <2> QED
    BY <1>1, <2>1 DEF UpTo
<1>3. Cardinality(UpTo(R, m)) = 1
  BY <1>2, FS_Singleton
<1> QED
  BY <1>3 DEF FirstRows

\* A page that is short of one row more is everything.
LEMMA ShortPageIsAll ==
  ASSUME NEW R \in SUBSET Ids, NEW n \in Nat, Cardinality(FirstRows(R, n + 1)) <= n
  PROVE  FirstRows(R, n) = R
<1>1. SUFFICES ASSUME R \ FirstRows(R, n) # {} PROVE FALSE
  BY DEF FirstRows
<1>2. PICK i \in R \ FirstRows(R, n) : \A k \in R \ FirstRows(R, n) : i <= k
  BY <1>1, LeastElement, IdsAreNumbers
<1> DEFINE A == UpTo(R, i) \ {i}
<1>0. i \in Nat /\ \A k \in R : k \in Nat
  BY IdsAreNumbers
<1>3. A \in SUBSET Ids /\ \A k \in A : k \in R /\ k < i /\ k \in FirstRows(R, n)
  <2>1. A \in SUBSET Ids /\ \A k \in A : k \in R /\ k <= i /\ k # i
    BY DEF UpTo
  <2>2. \A k \in A : k < i /\ k \in R
    <3> HIDE DEF A
    <3> QED
      BY <1>0, <2>1
  <2>3. \A k \in R : k < i => k \in FirstRows(R, n)
    BY <1>0, <1>2
  <2> QED
    BY <2>1, <2>2, <2>3
<1>4. IsFiniteSet(A) /\ Cardinality(A) \in Nat /\ Cardinality(A) <= n
  <2>1. CASE A = {}
    <3> HIDE DEF A
    <3> QED
      BY <2>1, FS_EmptySet
  <2>2. CASE A # {}
    <3>1. PICK k \in A : \A j \in A : j <= k
      BY <1>3, <2>2, LastRow
    <3>2. A = UpTo(R, k)
      <4>1. \A j \in R : j <= k => j <= i /\ j # i
        <5>1. k \in Nat /\ k < i
          BY <1>0, <1>3, <3>1
        <5> QED
          BY <1>0, <5>1
      <4>2. \A j \in R : j <= i /\ j # i => j <= k
        BY <3>1 DEF UpTo
      <4> QED
        BY <4>1, <4>2 DEF UpTo
    <3>3. Cardinality(UpTo(R, k)) <= n
      BY <1>3, <3>1 DEF FirstRows
    <3> QED
      BY <3>2, <3>3, CountUpTo
  <2> QED
    BY <2>1, <2>2
<1>5. i \in UpTo(R, i) /\ UpTo(R, i) = A \cup {i} /\ i \notin A
  BY <1>2, IdsAreNumbers DEF UpTo
<1>6. Cardinality(UpTo(R, i)) = Cardinality(A) + 1
  <2> HIDE DEF A
  <2> QED
    BY <1>4, <1>5, FS_AddElement
<1>7. UpTo(R, i) \in SUBSET FirstRows(R, n + 1)
  <2>1. i \in FirstRows(R, n + 1)
    BY <1>4, <1>6 DEF FirstRows
  <2>2. \A k \in A : k \in FirstRows(R, n + 1)
    <3>1. \A k \in A : k \in R /\ Cardinality(UpTo(R, k)) <= n
      BY <1>3 DEF FirstRows
    <3>2. \A k \in A : Cardinality(UpTo(R, k)) \in Nat
      BY CountUpTo
    <3>3. \A k \in A : Cardinality(UpTo(R, k)) <= n + 1
      BY <3>1, <3>2
    <3> QED
      BY <3>1, <3>3 DEF FirstRows
  <2> QED
    BY <1>5, <2>1, <2>2
<1>8. FirstRows(R, n + 1) \in SUBSET R
  BY DEF FirstRows
<1>9. IsFiniteSet(FirstRows(R, n + 1)) /\ Cardinality(FirstRows(R, n + 1)) \in Nat
  BY <1>8, CountUpTo, FS_Subset, FS_CardinalityType
<1>10. Cardinality(UpTo(R, i)) <= Cardinality(FirstRows(R, n + 1))
  BY <1>7, <1>9, FS_Subset
<1>11. Cardinality(UpTo(R, i)) <= n
  BY <1>9, <1>10, CountUpTo
<1> QED
  BY <1>2, <1>11 DEF FirstRows

------------------------------------------------------------------------------
(* A walk through the pages. *)

Walks == [table : Tables, after : Nat, listed : Seq(SUBSET (Ids \X Nat)),
          steady : SUBSET (Ids \X Nat), more : BOOLEAN]

Met(s) == UNION {s.listed[n] : n \in DOMAIN s.listed}

\* Up to the cursor every steady row has been met, behind it none.
WalkOK(s) ==
  /\ s \in Walks
  /\ s.more => /\ \A p \in Met(s) : p[1] <= s.after
               /\ \A p \in s.steady : p[1] <= s.after => p \in Met(s)
  /\ ~s.more => s.steady \subseteq Met(s)
  /\ \A m, n \in DOMAIN s.listed : m # n => s.listed[m] \cap s.listed[n] = {}

ScanOK(s) == s # None => WalkOK(s)

\* What a page adds.
Listed(d, t, page) == {<<i, d[t][i].born>> : i \in page}

Still(s, d) == {p \in s.steady : p[1] \in Present(d, s.table) /\ d[s.table][p[1]].born = p[2]}

LEMMA ListedPairs ==
  ASSUME NEW D, NEW d, RowsOK(d, D), NEW t \in Tables, NEW page \in SUBSET Present(d, t)
  PROVE  /\ Listed(d, t, page) \subseteq Ids \X Nat
         /\ \A p \in Listed(d, t, page) : p[1] \in page
         /\ \A i \in page : <<i, d[t][i].born>> \in Listed(d, t, page)
<1>1. \A i \in page : i \in Ids /\ d[t][i].born \in Nat
  BY DEF RowsOK, RowOK, RowOf
<1> QED
  BY <1>1 DEF Listed

LEMMA WalkBegins ==
  ASSUME NEW D, NEW d, RowsOK(d, D), NEW t \in Tables
  PROVE  WalkOK([table |-> t, after |-> 0, listed |-> <<>>,
                 steady |-> Listed(d, t, Present(d, t)), more |-> TRUE])
<1>1. PICK st : st = Listed(d, t, Present(d, t))
  OBVIOUS
<1>2. st \in SUBSET (Ids \X Nat)
  BY <1>1, ListedPairs
<1>3. PICK s : s = [table |-> t, after |-> 0, listed |-> <<>>, steady |-> st, more |-> TRUE]
  OBVIOUS
<1>4. s \in Walks /\ s.after = 0 /\ s.steady = st /\ s.listed = <<>> /\ s.more = TRUE
  BY <1>2, <1>3 DEF Walks
<1>5. DOMAIN s.listed = {}
  BY <1>4
<1>6. Met(s) = {}
  BY <1>5 DEF Met
<1>7. \A p \in s.steady : ~(p[1] <= s.after)
  <2>1. \A p \in Ids \X Nat : p[1] \in Nat \ {0}
    BY IdsAreNumbers
  <2> QED
    BY <1>2, <1>4, <2>1
<1>8. WalkOK(s)
  BY <1>4, <1>5, <1>6, <1>7 DEF WalkOK
<1> QED
  BY <1>1, <1>3, <1>8

\* One more page.
LEMMA WalkGoesOn ==
  ASSUME NEW D, NEW d, RowsOK(d, D), NEW s, WalkOK(s), s.more,
         NEW R, R = {i \in Present(d, s.table) : i > s.after},
         NEW page, page = FirstRows(R, PageSize),
         NEW more \in BOOLEAN, more <=> Cardinality(FirstRows(R, PageSize + 1)) > PageSize,
         NEW after, after = IF more THEN NextCursor(FirstRows(R, PageSize + 1), page) ELSE s.after,
         NEW l, l = Listed(d, s.table, page)
  PROVE  WalkOK([table |-> s.table, after |-> after, listed |-> Append(s.listed, l),
                 steady |-> Still(s, d), more |-> more])
<1>1. s \in Walks
  BY DEF WalkOK
<1>2. /\ s.table \in Tables /\ s.after \in Nat /\ s.listed \in Seq(SUBSET (Ids \X Nat))
      /\ s.steady \in SUBSET (Ids \X Nat)
  BY <1>1 DEF Walks
<1>3. R \in SUBSET Ids /\ page \in SUBSET R /\ page \in SUBSET Present(d, s.table)
  BY <1>2 DEF RowsOK, FirstRows
<1>4. /\ l \in SUBSET (Ids \X Nat)
      /\ \A p \in l : p[1] \in page
      /\ \A i \in page : <<i, d[s.table][i].born>> \in l
  BY <1>2, <1>3, ListedPairs
<1>5. PICK n : n = [table |-> s.table, after |-> after, listed |-> Append(s.listed, l),
                    steady |-> Still(s, d), more |-> more]
  OBVIOUS
<1>6. /\ n.table = s.table /\ n.after = after /\ n.listed = Append(s.listed, l)
      /\ n.steady = Still(s, d) /\ n.more = more
  BY <1>5
<1>7. Still(s, d) \in SUBSET s.steady
  BY DEF Still
<1>8. /\ Append(s.listed, l) \in Seq(SUBSET (Ids \X Nat))
      /\ DOMAIN s.listed = 1..Len(s.listed)
      /\ DOMAIN n.listed = DOMAIN s.listed \cup {Len(s.listed) + 1}
      /\ Len(s.listed) + 1 \notin DOMAIN s.listed
      /\ \A k \in DOMAIN s.listed : n.listed[k] = s.listed[k]
      /\ n.listed[Len(s.listed) + 1] = l
  BY <1>2, <1>4, <1>6
<1>9. Met(n) = Met(s) \cup l
  BY <1>8 DEF Met
<1>10. \A p \in l : p[1] > s.after /\ p[1] \in Nat
  <2>1. \A i \in R : i > s.after /\ i \in Nat
    BY <1>3, IdsAreNumbers
  <2> QED
    BY <1>3, <1>4, <2>1
<1>11. \A p \in Met(s) : p[1] <= s.after /\ p[1] \in Nat
  <2>1. \A p \in Met(s) : p \in Ids \X Nat
    BY <1>2 DEF Met
  <2>2. \A p \in Ids \X Nat : p[1] \in Nat
    BY IdsAreNumbers
  <2>3. \A p \in Met(s) : p[1] <= s.after
    BY DEF WalkOK
  <2> QED
    BY <2>1, <2>2, <2>3
<1>12. \A j, k \in DOMAIN n.listed : j # k => n.listed[j] \cap n.listed[k] = {}
  <2>1. \A k \in DOMAIN s.listed : s.listed[k] \cap l = {}
    <3>1. \A k \in DOMAIN s.listed : \A p \in s.listed[k] : p \in Met(s)
      BY DEF Met
    <3>2. \A p \in Met(s) : p \notin l
      BY <1>2, <1>10, <1>11
    <3> QED
      BY <3>1, <3>2
  <2>2. \A j, k \in DOMAIN s.listed : j # k => s.listed[j] \cap s.listed[k] = {}
    BY DEF WalkOK
  <2> QED
    BY <1>8, <2>1, <2>2
<1>13. \A p \in Still(s, d) : p[1] \in page \/ p[1] <= s.after => p \in Met(n)
  <2>1. SUFFICES ASSUME NEW p \in Still(s, d), p[1] \in page \/ p[1] <= s.after
                 PROVE  p \in Met(n)
    OBVIOUS
  <2>2. p \in s.steady /\ p \in Ids \X Nat /\ d[s.table][p[1]].born = p[2]
    BY <1>2 DEF Still
  <2>3. p = <<p[1], p[2]>>
    BY <2>2
  <2>4. CASE p[1] \in page
    BY <1>4, <1>9, <2>2, <2>3, <2>4
  <2>5. CASE p[1] <= s.after
    BY <1>9, <2>2, <2>5 DEF WalkOK
  <2> QED
    BY <2>1, <2>4, <2>5
<1>14. \A p \in Still(s, d) : p[1] \in R \/ p[1] <= s.after
  <2>1. SUFFICES ASSUME NEW p \in Still(s, d), ~(p[1] <= s.after) PROVE p[1] \in R
    OBVIOUS
  <2>2. p \in Ids \X Nat /\ p[1] \in Present(d, s.table)
    BY <1>2 DEF Still
  <2>3. p[1] \in Nat
    BY <2>2, IdsAreNumbers
  <2> QED
    BY <1>2, <2>1, <2>2, <2>3
<1>15. CASE more
  <2>1. R # {}
    <3>1. SUFFICES ASSUME R = {} PROVE FALSE
      OBVIOUS
    <3>2. FirstRows(R, PageSize + 1) = {}
      BY <3>1 DEF FirstRows
    <3>3. Cardinality(FirstRows(R, PageSize + 1)) = 0
      BY <3>2, FS_EmptySet
    <3> QED
      BY <1>15, <3>3, IdsAreNumbers
  <2>2. page # {}
    BY <1>3, <2>1, PageIsNotEmpty, IdsAreNumbers
  <2>3. after \in page /\ \A i \in page : i <= after
    <3>1. \E i \in page : \A j \in page : j <= i
      BY <1>3, <2>2, LastRow
    <3> QED
      BY <1>15, <3>1 DEF NextCursor
  <2>4. after \in Nat /\ after > s.after
    BY <1>3, <2>3, IdsAreNumbers
  <2>5. n \in Walks
    BY <1>2, <1>5, <1>7, <1>8, <1>6, <2>4 DEF Walks
  <2>6. \A p \in Met(n) : p[1] <= n.after
    <3>1. \A p \in Met(s) : p[1] <= after
      BY <1>2, <1>11, <2>4
    <3> QED
      BY <1>4, <1>6, <1>9, <2>3, <3>1
  <2>7. \A p \in n.steady : p[1] <= n.after => p \in Met(n)
    <3>1. \A i \in R : i <= after => i \in page
      BY <1>3, <2>3, PageHasNoGaps, IdsAreNumbers
    <3> QED
      BY <1>6, <1>13, <1>14, <3>1
  <2>8. n.more = TRUE
    BY <1>6, <1>15
  <2>9. WalkOK(n)
    BY <1>12, <2>5, <2>6, <2>7, <2>8 DEF WalkOK
  <2> QED
    BY <1>5, <2>9
<1>16. CASE ~more
  <2>1. page = R
    <3>1. Cardinality(FirstRows(R, PageSize + 1)) \in Nat
      <4>1. FirstRows(R, PageSize + 1) \in SUBSET Ids
        BY <1>3 DEF FirstRows
      <4> QED
        BY <4>1, CountUpTo
    <3>2. Cardinality(FirstRows(R, PageSize + 1)) <= PageSize
      BY <1>16, <3>1, IdsAreNumbers
    <3> QED
      BY <1>3, <3>2, ShortPageIsAll, IdsAreNumbers
  <2>2. n \in Walks
    BY <1>2, <1>5, <1>6, <1>7, <1>8, <1>16 DEF Walks
  <2>3. n.steady \subseteq Met(n)
    BY <1>6, <1>13, <1>14, <2>1
  <2>4. n.more = FALSE
    BY <1>6, <1>16
  <2>5. WalkOK(n)
    BY <1>12, <2>2, <2>3, <2>4 DEF WalkOK
  <2> QED
    BY <1>5, <2>5
<1> QED
  BY <1>15, <1>16

------------------------------------------------------------------------------
(* The invariant. *)

\* What a row that was read still tells about the row that is stored: one that
\* has not been written since is the same document.
SeenOK(row, t, i, d, D) ==
  /\ RowOK(d, row, D[t])
  /\ i \in Present(d, t) /\ d[t][i].born = row.born =>
       /\ row.revision <= d[t][i].revision
       /\ row.revision = d[t][i].revision => row.doc = d[t][i].doc

ViewOK(v, g, d, D) ==
  v # None => v.table \in g.tables /\ v.id \in Ids /\ SeenOK(v.row, v.table, v.id, d, D)

RequestOK(a, q, r, m, g, d, D) ==
  /\ q.op \in {"idle", "test", "plan", "apply"}
  /\ q.op = "test" => m = a /\ q.id \in Ids /\ SeenOK(q.row, "outbounds", q.id, d, D)
  /\ q.op \in {"plan", "apply"} => q.kind \in g.kinds
  /\ q.op = "apply" /\ q.kind \in Reviewed => r # None /\ r.kind = q.kind

ReviewOK(r, g) == r # None => r.kind \in g.kinds

\* A connection test was begun while there was room for one write more.
EditsOK(n, q, g) ==
  /\ n \in 0..(g.edits + 1)
  /\ \A a \in Admins : q[a].op = "test" => n <= g.edits

PanelOK ==
  /\ DOMAIN view = Admins /\ DOMAIN review = Admins /\ DOMAIN request = Admins
  /\ mutex \in Admins \cup {None}
  /\ \A a \in Admins : ViewOK(view[a], group, db, Docs)
  /\ \A a \in Admins : RequestOK(a, request[a], review[a], mutex, group, db, Docs)
  /\ \A a \in Admins : ReviewOK(review[a], group)
  /\ EditsOK(edits, request, group)

IInv ==
  /\ group \in Groups
  /\ DbOK(db, Docs)
  /\ PanelOK
  /\ DOMAIN installed = Deployments
  /\ InstalledResolves
  /\ ScanOK(scan)

LEMMA GroupFacts ==
  ASSUME NEW g \in Groups
  PROVE  g.tables \subseteq Tables /\ g.kinds \subseteq Deployments /\ g.edits \in Nat
  BY IdsAreNumbers DEF Groups, Tables, Deployments

LEMMA DocsStay == ASSUME group' = group PROVE Docs' = Docs
  BY DEF Docs, OutboundDocs, Shapes, ImportedShape

\* A row that was read says as little, or nothing, after a write.
LEMMA SeenStays ==
  ASSUME NEW D, NEW d, NEW e, DbOK(d, D), DbOK(e, D), NEW t0, NEW i0, NEW rev,
         Written(d, e, t0, i0, rev), NEW t \in Tables, NEW i, NEW row, SeenOK(row, t, i, d, D)
  PROVE  SeenOK(row, t, i, e, D)
<1>1. /\ row \in RowOf(D[t]) /\ row.born <= d.births /\ row.born \in Nat
      /\ row.revision \in Nat
  BY DEF SeenOK, RowOK, RowOf
<1>2. d.births \in Nat /\ e.births \in Nat /\ e.births >= d.births
  BY DEF DbOK, RowsOK, Written
<1>3. RowOK(e, row, D[t])
  BY <1>1, <1>2 DEF RowOK
<1>4. ASSUME i \in Present(e, t), e[t][i].born = row.born
      PROVE  /\ row.revision <= e[t][i].revision
             /\ row.revision = e[t][i].revision => row.doc = e[t][i].doc
  <2>1. i \in Present(d, t)
    <3>1. SUFFICES ASSUME i \notin Present(d, t) PROVE FALSE
      OBVIOUS
    <3>2. e[t][i].born > d.births
      BY <1>4, <3>1 DEF Written
    <3> QED
      BY <1>1, <1>2, <1>4, <3>2
  <2>2. RowWritten(d, e, t, i, t0, i0, rev)
    BY <2>1 DEF Written
  <2>3. CASE e[t][i] = d[t][i]
    BY <1>4, <2>1, <2>3 DEF SeenOK
  <2>4. CASE /\ d[t][i].revision = rev
             /\ e[t][i].born = d[t][i].born /\ e[t][i].revision > rev
    <3>1. row.revision <= rev
      BY <1>4, <2>1, <2>4 DEF SeenOK
    <3>2. rev \in Nat /\ e[t][i].revision \in Nat
      <4>1. RowOK(d, d[t][i], D[t]) /\ RowOK(e, e[t][i], D[t])
        BY <1>4, <2>1 DEF DbOK, RowsOK
      <4> QED
        BY <2>4, <4>1 DEF RowOK, RowOf
    <3> QED
      BY <1>1, <2>4, <3>1, <3>2
  <2> QED
    BY <1>4, <2>2, <2>3, <2>4 DEF RowWritten
<1> QED
  BY <1>3, <1>4 DEF SeenOK

------------------------------------------------------------------------------
(* The edits: each is one statement or transaction, whose author has its   *)
(* row on the screen.                                                      *)

Author(a, t, i, rev) ==
  view[a] # None /\ view[a].table = t /\ view[a].id = i /\ view[a].row.revision = rev

EditDone(a) ==
  /\ CanEdit(a)
  /\ \E answer, t, i, rev : /\ AnswerOK(db, answer, Docs, t, i, rev)
                            /\ Commit(a, answer)
                            /\ Author(a, t, i, rev) \/ rev = 0

LEMMA OneStatement ==
  ASSUME NEW a, CanEdit(a), NEW answer, Commit(a, answer), NEW t, NEW i, NEW rev,
         AnswerOK(db, answer, Docs, t, i, rev), Author(a, t, i, rev) \/ rev = 0
  PROVE  EditDone(a)
  BY DEF EditDone

\* Creating, changing and deleting a row of a table without credentials or links.
LEMMA EditPlain ==
  ASSUME IInv, NEW a, CanEdit(a), NEW t \in Plain, NEW answer, Commit(a, answer),
         \/ \E i \in Ids, doc \in Docs[t] : answer = Create(db, t, i, doc)
         \/ Opened(a, t) /\ \E doc \in Docs[t] :
              answer = Update(db, t, view[a].id, view[a].row.revision, doc)
         \/ Opened(a, t) /\ answer = Delete(db, t, view[a].id, view[a].row.revision)
         \/ \E err : answer = Answer(db, err)
  PROVE  EditDone(a)
<1>1. DbOK(db, Docs)
  BY DEF IInv
<1>2. PICK D : D = Docs
  OBVIOUS
<1>3. PICK d : d = db
  OBVIOUS
<1>4. PICK i0 : i0 = view[a].id
  OBVIOUS
<1>5. PICK rev : rev = view[a].row.revision
  OBVIOUS
<1>6. CASE \E i \in Ids, doc \in Docs[t] : answer = Create(db, t, i, doc)
  <2>1. AnswerOK(d, answer, D, t, 0, 0)
    BY <1>1, <1>2, <1>3, <1>6, CreatePlain
  <2> QED
    BY <1>2, <1>3, <2>1, OneStatement
<1>7. CASE Opened(a, t) /\ \E doc \in Docs[t] :
             answer = Update(db, t, view[a].id, view[a].row.revision, doc)
  <2>1. AnswerOK(d, answer, D, t, i0, rev)
    BY <1>1, <1>2, <1>3, <1>4, <1>5, <1>7, UpdatePlain
  <2>2. Author(a, t, i0, rev)
    BY <1>4, <1>5, <1>7 DEF Author, Opened
  <2> QED
    BY <1>2, <1>3, <2>1, <2>2, OneStatement
<1>8. CASE Opened(a, t) /\ answer = Delete(db, t, view[a].id, view[a].row.revision)
  <2>1. AnswerOK(d, answer, D, t, i0, rev)
    BY <1>1, <1>2, <1>3, <1>4, <1>5, <1>8, DeletePlain
  <2>2. Author(a, t, i0, rev)
    BY <1>4, <1>5, <1>8 DEF Author, Opened
  <2> QED
    BY <1>2, <1>3, <2>1, <2>2, OneStatement
<1>9. CASE \E err : answer = Answer(db, err)
  <2>1. AnswerOK(d, answer, D, t, 0, 0)
    BY <1>1, <1>2, <1>3, <1>9, NothingWritten
  <2> QED
    BY <1>2, <1>3, <2>1, OneStatement
<1> QED
  BY <1>6, <1>7, <1>8, <1>9

LEMMA EditRouteIsOne == ASSUME IInv, NEW a \in Admins, EditRoute(a) PROVE EditDone(a)
<1>1. CanEdit(a) /\ "routes" \in Plain
  BY DEF EditRoute, Edit, Plain
<1>2. PICK answer :
        /\ Commit(a, answer)
        /\ \/ \E i \in Ids, doc \in Docs["routes"] : answer = CreateRoute(db, i, doc)
           \/ Opened(a, "routes") /\ \E doc \in Docs["routes"] :
                answer = UpdateRoute(db, view[a].id, view[a].row.revision, doc)
           \/ /\ Opened(a, "routes")
              /\ answer = DeleteRoute(db, view[a].id, view[a].row.revision)
  BY DEF EditRoute, Edit
<1>3. \/ \E i \in Ids, doc \in Docs["routes"] : answer = Create(db, "routes", i, doc)
      \/ Opened(a, "routes") /\ \E doc \in Docs["routes"] :
           answer = Update(db, "routes", view[a].id, view[a].row.revision, doc)
      \/ /\ Opened(a, "routes")
         /\ answer = Delete(db, "routes", view[a].id, view[a].row.revision)
      \/ \E err : answer = Answer(db, err)
  BY <1>2 DEF CreateRoute, UpdateRoute, DeleteRoute
<1> QED
  BY <1>1, <1>2, <1>3, EditPlain

LEMMA EditRelayIsOne == ASSUME IInv, NEW a \in Admins, EditRelay(a) PROVE EditDone(a)
<1>1. CanEdit(a) /\ "relays" \in Plain
  BY DEF EditRelay, Edit, Plain
<1>2. PICK answer :
        /\ Commit(a, answer)
        /\ \/ \E i \in Ids, doc \in Docs["relays"] : answer = Create(db, "relays", i, doc)
           \/ Opened(a, "relays") /\ \E doc \in Docs["relays"] :
                answer = Update(db, "relays", view[a].id, view[a].row.revision, doc)
           \/ /\ Opened(a, "relays")
              /\ answer = Delete(db, "relays", view[a].id, view[a].row.revision)
  BY DEF EditRelay, Edit, CreateRelay, UpdateRelay, DeleteRelay
<1> QED
  BY <1>1, <1>2, EditPlain

LEMMA EditForwardIsOne == ASSUME IInv, NEW a \in Admins, EditForward(a) PROVE EditDone(a)
<1>1. CanEdit(a) /\ "forwards" \in Plain
  BY DEF EditForward, Edit, Plain
<1>2. PICK answer :
        /\ Commit(a, answer)
        /\ \/ \E i \in Ids, doc \in Docs["forwards"] : answer = Create(db, "forwards", i, doc)
           \/ Opened(a, "forwards") /\ \E doc \in Docs["forwards"] :
                answer = Update(db, "forwards", view[a].id, view[a].row.revision, doc)
           \/ /\ Opened(a, "forwards")
              /\ answer = Delete(db, "forwards", view[a].id, view[a].row.revision)
  BY DEF EditForward, Edit, CreatePortForward, UpdatePortForward, DeletePortForward
<1> QED
  BY <1>1, <1>2, EditPlain

LEMMA EditBackendIsOne == ASSUME IInv, NEW a \in Admins, EditBackend(a) PROVE EditDone(a)
<1>1. CanEdit(a) /\ "backends" \in Plain
  BY DEF EditBackend, Edit, Plain
<1>2. PICK answer :
        /\ Commit(a, answer)
        /\ \/ \E i \in Ids, doc \in Docs["backends"] : answer = Create(db, "backends", i, doc)
           \/ Opened(a, "backends") /\ \E doc \in Docs["backends"] :
                answer = Update(db, "backends", view[a].id, view[a].row.revision, doc)
           \/ /\ Opened(a, "backends")
              /\ answer = Delete(db, "backends", view[a].id, view[a].row.revision)
  BY DEF EditBackend, Edit, CreateHAProxyBackend, UpdateHAProxyBackend, DeleteHAProxyBackend
<1> QED
  BY <1>1, <1>2, EditPlain

LEMMA EditBindingIsOne == ASSUME IInv, NEW a \in Admins, EditBinding(a) PROVE EditDone(a)
<1>1. CanEdit(a) /\ "bindings" \in Plain
  BY DEF EditBinding, Edit, Plain
<1>2. PICK answer :
        /\ Commit(a, answer)
        /\ \/ \E i \in Ids, doc \in Docs["bindings"] : answer = Create(db, "bindings", i, doc)
           \/ Opened(a, "bindings") /\ \E doc \in Docs["bindings"] :
                answer = Update(db, "bindings", view[a].id, view[a].row.revision, doc)
           \/ /\ Opened(a, "bindings")
              /\ answer = Delete(db, "bindings", view[a].id, view[a].row.revision)
  BY DEF EditBinding, Edit, CreateXrayBinding, UpdateXrayBinding, DeleteXrayBinding
<1> QED
  BY <1>1, <1>2, EditPlain

LEMMA EditFrontendIsOne == ASSUME IInv, NEW a \in Admins, EditFrontend(a) PROVE EditDone(a)
<1>1. CanEdit(a) /\ DbOK(db, Docs)
  BY DEF EditFrontend, Edit, IInv
<1>2. PICK answer :
        /\ Commit(a, answer)
        /\ \/ \E i \in Ids, doc \in Docs["frontends"] : answer = CreateHAProxyFrontend(db, i, doc)
           \/ Opened(a, "frontends") /\ \E doc \in Docs["frontends"] :
                answer = UpdateHAProxyFrontend(db, view[a].id, view[a].row.revision, doc)
           \/ /\ Opened(a, "frontends")
              /\ answer = DeleteHAProxyFrontend(db, view[a].id, view[a].row.revision)
  BY DEF EditFrontend, Edit
<1>3. PICK D, d, i0, rev : D = Docs /\ d = db /\ i0 = view[a].id /\ rev = view[a].row.revision
  OBVIOUS
<1>4. CASE \E i \in Ids, doc \in Docs["frontends"] : answer = CreateHAProxyFrontend(db, i, doc)
  <2>1. AnswerOK(d, answer, D, "frontends", 0, 0)
    BY <1>1, <1>3, <1>4, CreateFrontendOK
  <2> QED
    BY <1>1, <1>2, <1>3, <2>1, OneStatement
<1>5. CASE Opened(a, "frontends") /\ \E doc \in Docs["frontends"] :
             answer = UpdateHAProxyFrontend(db, view[a].id, view[a].row.revision, doc)
  <2>1. AnswerOK(d, answer, D, "frontends", i0, rev)
    BY <1>1, <1>3, <1>5, UpdateFrontendOK
  <2>2. Author(a, "frontends", i0, rev)
    BY <1>3, <1>5 DEF Author, Opened
  <2> QED
    BY <1>1, <1>2, <1>3, <2>1, <2>2, OneStatement
<1>6. CASE /\ Opened(a, "frontends")
           /\ answer = DeleteHAProxyFrontend(db, view[a].id, view[a].row.revision)
  <2>1. AnswerOK(d, answer, D, "frontends", i0, rev)
    BY <1>1, <1>3, <1>6, DeleteFrontendOK
  <2>2. Author(a, "frontends", i0, rev)
    BY <1>3, <1>6 DEF Author, Opened
  <2> QED
    BY <1>1, <1>2, <1>3, <2>1, <2>2, OneStatement
<1> QED
  BY <1>2, <1>4, <1>5, <1>6

LEMMA EditOutboundIsOne == ASSUME IInv, NEW a \in Admins, EditOutbound(a) PROVE EditDone(a)
<1>1. CanEdit(a) /\ DbOK(db, Docs) /\ Opened(a, "outbounds")
  BY DEF EditOutbound, IInv
<1>2. PICK answer :
        /\ Commit(a, answer)
        /\ \/ \E doc \in OutboundDocs :
                answer = UpdateOutbound(db, view[a].id, view[a].row.revision, doc)
           \/ answer = DeleteOutbound(db, view[a].id, view[a].row.revision)
  BY DEF EditOutbound
<1>3. PICK D, d, i0, rev : D = Docs /\ d = db /\ i0 = view[a].id /\ rev = view[a].row.revision
  OBVIOUS
<1>4. AnswerOK(d, answer, D, "outbounds", i0, rev)
  <2>1. CASE \E doc \in OutboundDocs :
               answer = UpdateOutbound(db, view[a].id, view[a].row.revision, doc)
    <3>1. PICK doc \in D["outbounds"] : answer = UpdateOutbound(d, i0, rev, doc)
      BY <1>3, <2>1, DocumentsOfTables
    <3> QED
      BY <1>1, <1>3, <3>1, UpdateOutboundOK
  <2>2. CASE answer = DeleteOutbound(db, view[a].id, view[a].row.revision)
    BY <1>1, <1>3, <2>2, DeleteOutboundOK
  <2> QED
    BY <1>2, <2>1, <2>2
<1>5. Author(a, "outbounds", i0, rev)
  BY <1>1, <1>3 DEF Author, Opened
<1> QED
  BY <1>1, <1>2, <1>3, <1>4, <1>5, OneStatement

\* The source of a clone is a stored outbound, so its shape is one that an import gave.
LEMMA CloneRowIsOne == ASSUME IInv, NEW a \in Admins, CloneRow(a) PROVE EditDone(a)
<1>1. CanEdit(a) /\ DbOK(db, Docs) /\ view[a].id \in Present(db, "outbounds")
  BY DEF CloneRow, IInv
<1>2. PICK D, d, i0, revision : /\ D = Docs /\ d = db /\ i0 = view[a].id
                                /\ revision = view[a].row.revision
  OBVIOUS
<1>3. PICK i \in Ids, name \in Names :
        Commit(a, CloneOutbound(d, i0, revision, i,
          [d.outbounds[i0].doc EXCEPT !.name = name, !.enabled = FALSE, !.health = "usable"]))
  BY <1>2 DEF CloneRow
<1>0. PICK doc :
        doc = [d.outbounds[i0].doc EXCEPT !.name = name, !.enabled = FALSE, !.health = "usable"]
  OBVIOUS
<1>4. doc \in D["outbounds"]
  <2>1. RowOK(d, d.outbounds[i0], OutboundDocs)
    BY <1>1, <1>2, DocumentsOfTables DEF DbOK, RowsOK, Tables
  <2>2. d.outbounds[i0].doc \in OutboundDocs
    BY <2>1 DEF RowOK, RowOf
  <2>3. doc \in OutboundDocs
    BY <1>0, <2>2 DEF OutboundDocs, Healths
  <2> QED
    BY <1>2, <2>3, DocumentsOfTables
<1>5. PICK answer : answer = CloneOutbound(d, i0, revision, i, doc)
  OBVIOUS
<1>6. AnswerOK(d, answer, D, "outbounds", 0, 0)
  BY <1>1, <1>2, <1>4, <1>5, CloneOutboundOK
<1> QED
  BY <1>0, <1>1, <1>2, <1>3, <1>5, <1>6, OneStatement

LEMMA ImportIsOne == ASSUME IInv, NEW a \in Admins, Import(a) PROVE EditDone(a)
<1>1. CanEdit(a) /\ DbOK(db, Docs)
  BY DEF Import, IInv
<1>2. PICK batch \in SUBSET Ids, name \in [Ids -> Names] :
        Commit(a, CreateOutbounds(db,
          [i \in batch |-> [doc |-> ImportedDoc(i, name[i]), credential |-> ImportedShape[i]]]))
  BY DEF Import
<1>3. PICK inputs : inputs = [i \in batch |-> [doc        |-> ImportedDoc(i, name[i]),
                                              credential |-> ImportedShape[i]]]
  OBVIOUS
<1>4. \A i \in batch : /\ inputs[i].doc = ImportedDoc(i, name[i])
                       /\ inputs[i].credential = ImportedShape[i]
  BY <1>3
<1>5. PICK D, d : D = Docs /\ d = db
  OBVIOUS
<1>6. DOMAIN inputs = batch
      /\ \A i \in batch : /\ inputs[i].doc \in D["outbounds"]
                           /\ inputs[i].credential = inputs[i].doc.shape
  BY <1>3, <1>4, <1>5, ImportedDocument
<1>7. PICK answer : answer = CreateOutbounds(d, inputs)
  OBVIOUS
<1>8. AnswerOK(d, answer, D, "outbounds", 0, 0)
  BY <1>1, <1>5, <1>6, <1>7, CreateOutboundsOK
<1> QED
  BY <1>1, <1>2, <1>3, <1>5, <1>7, <1>8, OneStatement

------------------------------------------------------------------------------
(* The steps preserve the invariant. *)

LEMMA ViewStays ==
  ASSUME NEW D, NEW d, NEW e, DbOK(d, D), DbOK(e, D), NEW t0, NEW i0, NEW rev,
         Written(d, e, t0, i0, rev), NEW g \in Groups, NEW v, ViewOK(v, g, d, D)
  PROVE  ViewOK(v, g, e, D)
<1>1. SUFFICES ASSUME v # None
               PROVE  v.table \in g.tables /\ v.id \in Ids /\ SeenOK(v.row, v.table, v.id, e, D)
  BY DEF ViewOK
<1>2. v.table \in g.tables /\ v.id \in Ids /\ SeenOK(v.row, v.table, v.id, d, D)
  BY <1>1 DEF ViewOK
<1>3. v.table \in Tables
  BY <1>2, GroupFacts
<1> QED
  BY <1>2, <1>3, SeenStays

LEMMA RequestStays ==
  ASSUME NEW D, NEW d, NEW e, DbOK(d, D), DbOK(e, D), NEW t0, NEW i0, NEW rev,
         Written(d, e, t0, i0, rev), NEW g, NEW a, NEW q, NEW r, NEW m,
         RequestOK(a, q, r, m, g, d, D)
  PROVE  RequestOK(a, q, r, m, g, e, D)
<1>1. ASSUME q.op = "test" PROVE SeenOK(q.row, "outbounds", q.id, e, D)
  <2>1. SeenOK(q.row, "outbounds", q.id, d, D)
    BY <1>1 DEF RequestOK
  <2>2. "outbounds" \in Tables
    BY DEF Tables
  <2> QED
    BY <2>1, <2>2, SeenStays
<1> QED
  BY <1>1 DEF RequestOK

LEMMA EditDoneStep == ASSUME IInv, NEW a \in Admins, EditDone(a) PROVE IInv'
<1>1. PICK answer, t, i, rev : AnswerOK(db, answer, Docs, t, i, rev) /\ Commit(a, answer)
  BY DEF EditDone
<1>2. /\ db' = answer.db
      /\ edits' = IF answer.err = "none" THEN edits + 1 ELSE edits
      /\ view' = [view EXCEPT ![a] = None]
      /\ UNCHANGED <<group, review, request, mutex, installed, scan>>
  BY <1>1 DEF Commit
<1>3. PICK D, d, e, g : D = Docs /\ d = db /\ e = db' /\ g = group
  OBVIOUS
<1>4. Docs' = D /\ group' = g
  BY <1>2, <1>3, DocsStay
<1>5. DbOK(d, D) /\ DbOK(e, D) /\ Written(d, e, t, i, rev) /\ g \in Groups
  BY <1>1, <1>2, <1>3 DEF AnswerOK, IInv
<1>6. PanelOK
  BY DEF IInv
<1>7. \A b \in Admins : ViewOK(view'[b], g, e, D)
  <2>1. \A b \in Admins : ViewOK(view[b], g, e, D)
    BY <1>3, <1>5, <1>6, ViewStays DEF PanelOK
  <2>2. ViewOK(None, g, e, D)
    BY DEF ViewOK
  <2> QED
    BY <1>2, <1>6, <2>1, <2>2 DEF PanelOK
<1>8. \A b \in Admins : RequestOK(b, request[b], review[b], mutex, g, e, D)
  BY <1>3, <1>5, <1>6, RequestStays DEF PanelOK
<1>9. EditsOK(edits', request, g)
  <2>1. EditsOK(edits, request, g) /\ edits < g.edits /\ g.edits \in Nat
    BY <1>3, <1>5, <1>6, GroupFacts DEF PanelOK, EditDone, CanEdit
  <2>2. edits \in Nat
    BY <2>1 DEF EditsOK
  <2>3. edits' \in 0..(g.edits + 1) /\ edits' <= g.edits
    BY <1>2, <2>1, <2>2
  <2> QED
    BY <2>3 DEF EditsOK
<1>10. PanelOK'
  <2>1. DOMAIN view' = Admins
    BY <1>2, <1>6 DEF PanelOK
  <2> QED
    BY <1>2, <1>3, <1>4, <1>6, <1>7, <1>8, <1>9, <2>1 DEF PanelOK
<1>11. InstalledResolves'
  BY <1>2 DEF IInv, InstalledResolves
<1> QED
  BY <1>2, <1>3, <1>4, <1>5, <1>10, <1>11 DEF IInv

LEMMA ReadRowStep == ASSUME IInv, NEW a \in Admins, NEW t \in Tables, ReadRow(a, t) PROVE IInv'
<1>1. PICK i \in Page(db, t, 0, Cardinality(Ids)) :
        view' = [view EXCEPT ![a] = [table |-> t, id |-> i, row |-> db[t][i]]]
  BY DEF ReadRow
<1>2. t \in group.tables /\ UNCHANGED <<group, db, review, request, mutex, installed, scan, edits>>
  BY DEF ReadRow, Edits
<1>3. PICK v : v = [table |-> t, id |-> i, row |-> db[t][i]]
  OBVIOUS
<1>4. v.table = t /\ v.id = i /\ v.row = db[t][i]
  BY <1>3
<1>5. PanelOK /\ DbOK(db, Docs)
  BY DEF IInv
<1>6. i \in Present(db, t) /\ i \in Ids /\ RowOK(db, db[t][i], Docs[t])
  BY <1>5 DEF Page, DbOK, RowsOK
<1>7. ViewOK(v, group, db, Docs)
  <2>1. db[t][i].revision \in Nat
    BY <1>6 DEF RowOK, RowOf
  <2> QED
    BY <1>2, <1>4, <1>6, <2>1 DEF ViewOK, SeenOK
<1>8. Docs' = Docs
  BY <1>2, DocsStay
<1>9. PanelOK'
  <2>1. DOMAIN view' = Admins /\ \A b \in Admins : ViewOK(view'[b], group, db, Docs)
    BY <1>1, <1>3, <1>5, <1>7 DEF PanelOK
  <2> QED
    BY <1>2, <1>5, <1>8, <2>1 DEF PanelOK
<1>10. InstalledResolves'
  BY <1>2 DEF IInv, InstalledResolves
<1> QED
  BY <1>2, <1>8, <1>9, <1>10 DEF IInv

LEMMA StartTestStep == ASSUME IInv, NEW a \in Admins, StartTest(a) PROVE IInv'
<1>1. /\ CanEdit(a) /\ mutex = None /\ Opened(a, "outbounds")
      /\ Current(db, "outbounds", view[a].id, view[a].row.revision)
      /\ request' = [request EXCEPT ![a] =
           [op |-> "test", id |-> view[a].id, row |-> db.outbounds[view[a].id]]]
      /\ mutex' = a
      /\ view' = [view EXCEPT ![a] = None]
      /\ UNCHANGED <<group, db, review, installed, scan, edits>>
  BY DEF StartTest
<1>2. PICK i : i = view[a].id
  OBVIOUS
<1>3. PICK q : q = [op |-> "test", id |-> i, row |-> db.outbounds[i]]
  OBVIOUS
<1>4. q.op = "test" /\ q.id = i /\ q.row = db.outbounds[i] /\ request' = [request EXCEPT ![a] = q]
  BY <1>1, <1>2, <1>3
<1>5. PanelOK /\ DbOK(db, Docs)
  BY DEF IInv
<1>6. i \in Present(db, "outbounds") /\ i \in Ids /\ RowOK(db, db.outbounds[i], Docs["outbounds"])
  <2>1. i \in Present(db, "outbounds") /\ "outbounds" \in Tables
    BY <1>1, <1>2 DEF Current, Tables
  <2> QED
    BY <1>5, <2>1 DEF DbOK, RowsOK
<1>7. RequestOK(a, q, review[a], a, group, db, Docs)
  <2>1. db.outbounds[i].revision \in Nat
    BY <1>6 DEF RowOK, RowOf
  <2>2. SeenOK(q.row, "outbounds", q.id, db, Docs)
    BY <1>4, <1>6, <2>1 DEF SeenOK
  <2> QED
    BY <1>4, <1>6, <2>2 DEF RequestOK
<1>8. \A b \in Admins : b # a => request[b].op # "test"
  BY <1>1, <1>5, AdminsAreNamed DEF PanelOK, RequestOK
<1>9. \A b \in Admins : RequestOK(b, request'[b], review[b], a, group, db, Docs)
  <2>1. \A b \in Admins : b # a => RequestOK(b, request[b], review[b], a, group, db, Docs)
    BY <1>5, <1>8 DEF PanelOK, RequestOK
  <2> QED
    BY <1>4, <1>5, <1>7, <2>1 DEF PanelOK
<1>10. EditsOK(edits, request', group)
  <2>1. EditsOK(edits, request, group) /\ edits < group.edits /\ group.edits \in Nat
    BY <1>1, <1>5, GroupFacts DEF PanelOK, CanEdit, IInv
  <2>2. edits <= group.edits
    BY <2>1 DEF EditsOK
  <2> QED
    BY <2>1, <2>2 DEF EditsOK
<1>11. Docs' = Docs
  BY <1>1, DocsStay
<1>12. PanelOK'
  <2>1. \A b \in Admins : ViewOK(view'[b], group, db, Docs)
    BY <1>1, <1>5 DEF PanelOK, ViewOK
  <2>2. DOMAIN view' = Admins /\ DOMAIN request' = Admins
    BY <1>1, <1>4, <1>5 DEF PanelOK
  <2> QED
    BY <1>1, <1>5, <1>9, <1>10, <1>11, <2>1, <2>2 DEF PanelOK
<1>13. InstalledResolves'
  BY <1>1 DEF IInv, InstalledResolves
<1> QED
  BY <1>1, <1>11, <1>12, <1>13 DEF IInv

\* A request that is answered leaves the mutex to those who hold it.
LEMMA Answered ==
  ASSUME PanelOK, NEW a \in Admins, Done(a)
  PROVE  /\ DOMAIN request' = Admins
         /\ mutex' \in Admins \cup {None}
         /\ request'[a].op = "idle"
         /\ \A b \in Admins \ {a} : request'[b] = request[b]
         /\ \A r, d, D : RequestOK(a, request'[a], r, mutex', group, d, D)
         /\ \A b \in Admins \ {a} : \A d, D :
              RequestOK(b, request[b], review[b], mutex, group, d, D)
                => RequestOK(b, request[b], review[b], mutex', group, d, D)
         /\ \A n : EditsOK(n, request, group) => EditsOK(n, request', group)
<1>1. /\ request' = [request EXCEPT ![a] = Idle]
      /\ mutex' = IF mutex = a THEN None ELSE mutex
      /\ DOMAIN request = Admins /\ mutex \in Admins \cup {None}
  BY DEF Done, PanelOK
<1>2. Idle.op = "idle"
  BY DEF Idle
<1>3. /\ DOMAIN request' = Admins /\ request'[a] = Idle
      /\ \A b \in Admins \ {a} : request'[b] = request[b]
      /\ mutex' \in Admins \cup {None}
  BY <1>1
<1>4. \A r, d, D : RequestOK(a, request'[a], r, mutex', group, d, D)
  BY <1>2, <1>3 DEF RequestOK
<1>5. \A b \in Admins \ {a} : mutex = b => mutex' = b
  BY <1>1
<1>6. \A b \in Admins \ {a} : \A d, D :
        RequestOK(b, request[b], review[b], mutex, group, d, D)
          => RequestOK(b, request[b], review[b], mutex', group, d, D)
  BY <1>5 DEF RequestOK
<1>7. \A n : EditsOK(n, request, group) => EditsOK(n, request', group)
  BY <1>2, <1>3 DEF EditsOK
<1> QED
  BY <1>2, <1>3, <1>4, <1>6, <1>7

\* What a connection test writes is what it read, with another health.
LEMMA TestAnswer ==
  ASSUME IInv, NEW a \in Admins, request[a].op = "test", NEW health \in Healths
  PROVE  AnswerOK(db, UpdateOutbound(db, request[a].id, request[a].row.revision,
                                     [request[a].row.doc EXCEPT !.health = health]),
                  Docs, "outbounds", request[a].id, request[a].row.revision)
<1>1. DbOK(db, Docs) /\ SeenOK(request[a].row, "outbounds", request[a].id, db, Docs)
  BY DEF IInv, PanelOK, RequestOK
<1>2. request[a].row.doc \in OutboundDocs
  BY <1>1, DocumentsOfTables DEF SeenOK, RowOK, RowOf
<1>3. PICK old \in OutboundDocs : old = request[a].row.doc
  BY <1>2
<1>4. PICK doc : doc = [old EXCEPT !.health = health]
  OBVIOUS
<1>5. doc \in OutboundDocs
  BY <1>4 DEF OutboundDocs
<1>6. PICK D, d, i, rev : D = Docs /\ d = db /\ i = request[a].id /\ rev = request[a].row.revision
  OBVIOUS
<1>7. doc \in D["outbounds"]
  BY <1>5, <1>6, DocumentsOfTables
<1>8. AnswerOK(d, UpdateOutbound(d, i, rev, doc), D, "outbounds", i, rev)
  BY <1>1, <1>6, <1>7, UpdateOutboundOK
<1> QED
  BY <1>3, <1>4, <1>6, <1>8

LEMMA FinishTestStep == ASSUME IInv, NEW a \in Admins, FinishTest(a) PROVE IInv'
<1>1. request[a].op = "test" /\ Done(a) /\ UNCHANGED <<group, view, review, installed, scan>>
  BY DEF FinishTest
<1>2. PICK health, answer :
        /\ health \in Healths
        /\ answer = UpdateOutbound(db, request[a].id, request[a].row.revision,
                                   [request[a].row.doc EXCEPT !.health = health])
        /\ db' = answer.db
        /\ edits' = IF answer.err = "none" THEN edits + 1 ELSE edits
  BY DEF FinishTest
<1>3. PICK D, d, e, g, i, rev : /\ D = Docs /\ d = db /\ e = db' /\ g = group
                                /\ i = request[a].id /\ rev = request[a].row.revision
  OBVIOUS
<1>4. DbOK(d, D) /\ DbOK(e, D) /\ Written(d, e, "outbounds", i, rev) /\ g \in Groups
  BY <1>1, <1>2, <1>3, TestAnswer DEF AnswerOK, IInv
<1>5. PanelOK
  BY DEF IInv
<1>6. Docs' = D /\ group' = g
  BY <1>1, <1>3, DocsStay
<1>7. \A b \in Admins : ViewOK(view[b], g, e, D)
  BY <1>3, <1>4, <1>5, ViewStays DEF PanelOK
<1>8. \A b \in Admins : RequestOK(b, request[b], review[b], mutex, g, e, D)
  BY <1>3, <1>4, <1>5, RequestStays DEF PanelOK
<1>9. /\ DOMAIN request' = Admins /\ mutex' \in Admins \cup {None}
      /\ request'[a].op = "idle" /\ \A b \in Admins \ {a} : request'[b] = request[b]
      /\ \A r : RequestOK(a, request'[a], r, mutex', g, e, D)
      /\ \A b \in Admins \ {a} : RequestOK(b, request'[b], review[b], mutex', g, e, D)
  BY <1>1, <1>3, <1>5, <1>8, Answered
<1>10. \A b \in Admins : RequestOK(b, request'[b], review[b], mutex', g, e, D)
  BY <1>9
<1>11. \A b \in Admins : request'[b].op # "test"
  BY <1>1, <1>5, <1>9 DEF PanelOK, RequestOK
<1>12. EditsOK(edits', request', g)
  <2>1. edits \in 0..(g.edits + 1) /\ edits <= g.edits /\ g.edits \in Nat
    BY <1>1, <1>3, <1>4, <1>5, GroupFacts DEF PanelOK, EditsOK
  <2>2. edits' \in 0..(g.edits + 1)
    BY <1>2, <2>1
  <2> QED
    BY <1>11, <2>2 DEF EditsOK
<1>13. PanelOK'
  BY <1>1, <1>3, <1>5, <1>6, <1>7, <1>9, <1>10, <1>12 DEF PanelOK
<1>14. InstalledResolves'
  BY <1>1 DEF IInv, InstalledResolves
<1> QED
  BY <1>1, <1>3, <1>4, <1>6, <1>13, <1>14 DEF IInv

\* Steps that write no row.
LEMMA AnswerStep ==
  ASSUME IInv, UNCHANGED <<group, db, view, scan, edits>>,
         DOMAIN request' = Admins, DOMAIN review' = Admins, mutex' \in Admins \cup {None},
         \A a \in Admins : RequestOK(a, request'[a], review'[a], mutex', group, db, Docs),
         \A a \in Admins : ReviewOK(review'[a], group),
         EditsOK(edits, request', group),
         DOMAIN installed' = Deployments, InstalledResolves'
  PROVE  IInv'
<1>1. Docs' = Docs
  BY DocsStay
<1>2. PanelOK
  BY DEF IInv
<1>3. PanelOK'
  BY <1>1, <1>2 DEF PanelOK
<1> QED
  BY <1>1, <1>3 DEF IInv

\* Steps after which only requests, reviews and the mutex differ.
LEMMA RequestStep ==
  ASSUME IInv, UNCHANGED <<group, db, view, installed, scan, edits>>,
         DOMAIN request' = Admins, DOMAIN review' = Admins, mutex' \in Admins \cup {None},
         \A a \in Admins : RequestOK(a, request'[a], review'[a], mutex', group, db, Docs),
         \A a \in Admins : ReviewOK(review'[a], group),
         EditsOK(edits, request', group)
  PROVE  IInv'
<1>1. DOMAIN installed' = Deployments /\ InstalledResolves'
  BY DEF IInv, InstalledResolves
<1> QED
  BY <1>1, AnswerStep

\* The queries of a request only change what it has read.
LEMMA ReadTableStep == ASSUME IInv, NEW a \in Admins, ReadTable(a) PROVE IInv'
<1>1. /\ request[a].op \in {"plan", "apply"}
      /\ UNCHANGED <<group, db, view, review, mutex, installed, scan, edits>>
  BY DEF ReadTable
<1>2. PICK read, todo : request' = [request EXCEPT ![a].read = read, ![a].todo = todo]
  BY DEF ReadTable
<1>3. PanelOK
  BY DEF IInv
<1>4. /\ DOMAIN request' = Admins
      /\ \A b \in Admins : request'[b].op = request[b].op /\ request'[b].kind = request[b].kind
      /\ \A b \in Admins \ {a} : request'[b] = request[b]
  BY <1>2, <1>3 DEF PanelOK
<1>5. \A b \in Admins : RequestOK(b, request'[b], review[b], mutex, group, db, Docs)
  BY <1>1, <1>3, <1>4 DEF PanelOK, RequestOK
<1>6. EditsOK(edits, request', group)
  BY <1>3, <1>4 DEF PanelOK, EditsOK
<1> QED
  BY <1>1, <1>3, <1>4, <1>5, <1>6, RequestStep DEF PanelOK

\* A missing credential ends the request.
LEMMA ReadCredentialStep == ASSUME IInv, NEW a \in Admins, ReadCredential(a) PROVE IInv'
<1>1. /\ request[a].op \in {"plan", "apply"}
      /\ UNCHANGED <<group, db, view, review, installed, scan, edits>>
  BY DEF ReadCredential
<1>2. PanelOK
  BY DEF IInv
<1>3. CASE Done(a)
  <2>1. PICK g, d, D : g = group /\ d = db /\ D = Docs
    OBVIOUS
  <2>2. \A b \in Admins : RequestOK(b, request[b], review[b], mutex, g, d, D)
    BY <1>2, <2>1 DEF PanelOK
  <2>3. /\ DOMAIN request' = Admins /\ mutex' \in Admins \cup {None}
        /\ \A b \in Admins \ {a} : request'[b] = request[b]
        /\ \A r : RequestOK(a, request'[a], r, mutex', g, d, D)
        /\ \A b \in Admins \ {a} : RequestOK(b, request[b], review[b], mutex', g, d, D)
        /\ \A n : EditsOK(n, request, g) => EditsOK(n, request', g)
    BY <1>2, <1>3, <2>1, <2>2, Answered
  <2>4. \A b \in Admins : RequestOK(b, request'[b], review[b], mutex', g, d, D)
    BY <2>3
  <2> QED
    BY <1>1, <1>2, <2>1, <2>3, <2>4, RequestStep DEF PanelOK
<1>4. CASE ~Done(a)
  <2>1. PICK c, todo : /\ request' = [request EXCEPT ![a].read.credentials = c, ![a].todo = todo]
                       /\ mutex' = mutex
    BY <1>4 DEF ReadCredential
  <2>2. /\ DOMAIN request' = Admins
        /\ \A b \in Admins : request'[b].op = request[b].op /\ request'[b].kind = request[b].kind
        /\ \A b \in Admins \ {a} : request'[b] = request[b]
    BY <1>2, <2>1 DEF PanelOK
  <2>3. \A b \in Admins : RequestOK(b, request'[b], review[b], mutex, group, db, Docs)
    BY <1>1, <1>2, <2>2 DEF PanelOK, RequestOK
  <2>4. EditsOK(edits, request', group)
    BY <1>2, <2>2 DEF PanelOK, EditsOK
  <2> QED
    BY <1>1, <1>2, <2>1, <2>2, <2>3, <2>4, RequestStep DEF PanelOK
<1> QED
  BY <1>3, <1>4

\* A load that begins: of a plan, of an apply of what was reviewed, or of rows
\* that the web process sends along.
LEMMA LoadBegins ==
  ASSUME IInv, NEW a \in Admins, NEW op \in {"plan", "apply"}, NEW kind \in group.kinds,
         NEW m, m = mutex \/ (mutex = None /\ m = a), request[a] = Idle,
         op = "apply" /\ kind \in Reviewed => review[a] # None /\ review[a].kind = kind,
         mutex' = m,
         request' = [request EXCEPT ![a] =
           [op |-> op, kind |-> kind, todo |-> Queries(kind), read |-> Nothing]],
         UNCHANGED <<group, db, view, review, installed, scan, edits>>
  PROVE  IInv'
<1>1. PanelOK
  BY DEF IInv
<1>2. PICK q : q = [op |-> op, kind |-> kind, todo |-> Queries(kind), read |-> Nothing]
  OBVIOUS
<1>3. q.op = op /\ q.kind = kind /\ request' = [request EXCEPT ![a] = q]
  BY <1>2
<1>4. /\ DOMAIN request' = Admins /\ request'[a] = q
      /\ \A b \in Admins \ {a} : request'[b] = request[b]
  BY <1>1, <1>3 DEF PanelOK
<1>5. RequestOK(a, q, review[a], m, group, db, Docs)
  BY <1>3 DEF RequestOK
<1>6. \A b \in Admins \ {a} : RequestOK(b, request[b], review[b], m, group, db, Docs)
  <2>1. \A b \in Admins \ {a} : mutex = b => m = b
    BY AdminsAreNamed
  <2> QED
    BY <1>1, <2>1 DEF PanelOK, RequestOK
<1>7. EditsOK(edits, request', group)
  BY <1>1, <1>3, <1>4 DEF PanelOK, EditsOK
<1>8. m \in Admins \cup {None}
  BY <1>1 DEF PanelOK
<1> QED
  BY <1>1, <1>4, <1>5, <1>6, <1>7, <1>8, RequestStep DEF PanelOK

LEMMA StartLoadStep ==
  ASSUME IInv, NEW a \in Admins, NEW kind \in Deployments,
         StartPlan(a, kind) \/ StartApply(a, kind) \/ StartSubmit(a, kind)
  PROVE  IInv'
<1>1. CASE StartPlan(a, kind)
  <2>1. request[a] = Idle /\ StartLoad(a, "plan", kind)
    BY <1>1 DEF StartPlan, Free
  <2> QED
    BY <2>1, LoadBegins DEF StartLoad
<1>2. CASE StartApply(a, kind)
  <2>1. /\ request[a] = Idle /\ review[a] # None /\ review[a].kind = kind
        /\ StartLoad(a, "apply", kind)
    BY <1>2 DEF StartApply
  <2> QED
    BY <2>1, LoadBegins DEF StartLoad
<1>3. CASE StartSubmit(a, kind)
  <2>1. request[a] = Idle /\ kind \in group.kinds /\ kind \notin Reviewed /\ mutex' = mutex
    BY <1>3 DEF StartSubmit, Free
  <2> QED
    BY <1>3, <2>1, LoadBegins DEF StartSubmit
<1> QED
  BY <1>1, <1>2, <1>3

LEMMA FinishPlanStep == ASSUME IInv, NEW a \in Admins, FinishPlan(a) PROVE IInv'
<1>1. /\ request[a].op = "plan" /\ Done(a)
      /\ UNCHANGED <<group, db, view, installed, scan, edits>>
  BY DEF FinishPlan, Loaded
<1>2. PICK kind, state, candidate :
        /\ kind = request[a].kind
        /\ \/ review' = [review EXCEPT ![a] = None]
           \/ review' = [review EXCEPT ![a] =
                [kind |-> kind, state |-> state, candidate |-> candidate]]
  BY DEF FinishPlan
<1>3. PanelOK
  BY DEF IInv
<1>4. PICK g, d, D : g = group /\ d = db /\ D = Docs
  OBVIOUS
<1>5. kind \in g.kinds
  BY <1>1, <1>2, <1>3, <1>4 DEF PanelOK, RequestOK
<1>6. /\ DOMAIN review' = Admins /\ ReviewOK(review'[a], g)
      /\ \A b \in Admins \ {a} : review'[b] = review[b]
  BY <1>2, <1>3, <1>5 DEF PanelOK, ReviewOK
<1>7. \A b \in Admins : RequestOK(b, request[b], review[b], mutex, g, d, D)
  BY <1>3, <1>4 DEF PanelOK
<1>8. /\ DOMAIN request' = Admins /\ mutex' \in Admins \cup {None}
      /\ \A b \in Admins \ {a} : request'[b] = request[b]
      /\ \A r : RequestOK(a, request'[a], r, mutex', g, d, D)
      /\ \A b \in Admins \ {a} : RequestOK(b, request[b], review[b], mutex', g, d, D)
      /\ \A n : EditsOK(n, request, g) => EditsOK(n, request', g)
  BY <1>1, <1>3, <1>4, <1>7, Answered
<1>9. \A b \in Admins : RequestOK(b, request'[b], review'[b], mutex', g, d, D)
  BY <1>6, <1>8
<1>10. \A b \in Admins : ReviewOK(review'[b], g)
  BY <1>3, <1>4, <1>6 DEF PanelOK
<1> QED
  BY <1>1, <1>3, <1>4, <1>6, <1>8, <1>9, <1>10, RequestStep DEF PanelOK

------------------------------------------------------------------------------
(* What is installed. *)

LEMMA RoutedPlanResolves ==
  ASSUME NEW o, NEW c, NEW intents, BuildRoutedPlan(o, c, intents).ok
  PROVE  \A r \in DOMAIN intents :
           intents[r].selected \in DOMAIN BuildRoutedPlan(o, c, intents).config \cup {Direct}
  BY DEF BuildRoutedPlan, Planned

LEMMA RelayPlanResolves ==
  ASSUME NEW relays, NEW o, NEW c, NEW p, p = relayBuildPlan(relays, o, c), p.ok
  PROVE  \A r \in DOMAIN p.config : p.config[r].credential = p.config[r].shape
<1> DEFINE active == Enabled(relays)
           ok == \A r \in active : RelayPlannable(relays[r], o, c)
<1>1. ok
  BY DEF relayBuildPlan, Planned
<1>2. p.config = [r \in active |-> [outbound   |-> relays[r].outbound,
                                    shape      |-> o[relays[r].outbound].shape,
                                    credential |-> c[relays[r].outbound]]]
  BY <1>1 DEF relayBuildPlan, Planned
<1>3. \A r \in active : c[relays[r].outbound] = o[relays[r].outbound].shape
  BY <1>1 DEF RelayPlannable, CredentialMatches
<1> HIDE DEF active, ok
<1> QED
  BY <1>2, <1>3

LEMMA HAProxyPlanResolves ==
  ASSUME NEW frontends, NEW backends, NEW p, p = haproxyBuildPlan(frontends, backends), p.ok
  PROVE  \A f \in DOMAIN p.config : Enabled(p.config[f]) # {}
<1> DEFINE ok == \A f \in DOMAIN frontends : FrontendPlannable(frontends[f], backends)
<1>1. ok
  BY DEF haproxyBuildPlan, Planned
<1>2. p.config = [f \in Enabled(frontends) |-> Restrict(backends, frontends[f].backends)]
  BY <1>1 DEF haproxyBuildPlan, Planned
<1>3. SUFFICES ASSUME NEW f \in Enabled(frontends)
               PROVE  Enabled(Restrict(backends, frontends[f].backends)) # {}
  BY <1>2
<1>4. frontends[f].backends \cap Enabled(backends) # {}
  BY <1>1 DEF FrontendPlannable, Enabled
<1>5. PICK b : b \in frontends[f].backends /\ b \in Enabled(backends)
  BY <1>4
<1>6. b \in Enabled(Restrict(backends, frontends[f].backends))
  BY <1>5 DEF Enabled, Restrict
<1> QED
  BY <1>6

\* Installing a plan that was made of what is installed now.
LEMMA InstallResolves ==
  ASSUME DOMAIN installed = Deployments, InstalledResolves, NEW kind \in Deployments, NEW read,
         Plan(kind, read).ok, Install(kind, Plan(kind, read).config)
  PROVE  DOMAIN installed' = Deployments /\ InstalledResolves'
<1>1. /\ {"singbox", "routes", "relays", "haproxy", "nat", "xray"} = Deployments
      /\ \A r \in DOMAIN installed.routes :
           installed.routes[r].selected \in DOMAIN installed.singbox \cup {Direct}
      /\ \A r \in DOMAIN installed.relays :
           installed.relays[r].credential = installed.relays[r].shape
      /\ \A f \in DOMAIN installed.haproxy : Enabled(installed.haproxy[f]) # {}
  BY DEF Deployments, InstalledResolves
<1>2. PICK plan : plan = Plan(kind, read)
  OBVIOUS
<1>3. CASE kind = "routes"
  <2>1. PICK routing, singbox :
          /\ routing = routingBuildPlan(read.routes, read.outbounds)
          /\ singbox = BuildRoutedPlan(read.outbounds, read.credentials, routing.config)
    OBVIOUS
  <2>2. /\ singbox.ok
        /\ plan.config = [routes |-> routing.config, singbox |-> singbox.config]
    BY <1>2, <1>3, <2>1 DEF Plan, Planned
  <2>3. \A r \in DOMAIN routing.config :
          routing.config[r].selected \in DOMAIN singbox.config \cup {Direct}
    BY <2>1, <2>2, RoutedPlanResolves
  <2>4. installed' = [installed EXCEPT !.routes = routing.config, !.singbox = singbox.config]
    <3>1. plan.config.routes = routing.config /\ plan.config.singbox = singbox.config
      BY <2>2
    <3>2. Install(kind, plan.config)
      BY <1>2
    <3>3. installed' = [installed EXCEPT !.routes = plan.config.routes,
                                         !.singbox = plan.config.singbox]
      BY <1>3, <3>2 DEF Install
    <3> QED
      BY <3>1, <3>3
  <2>5. /\ DOMAIN installed' = Deployments
        /\ installed'.routes = routing.config /\ installed'.singbox = singbox.config
        /\ installed'.relays = installed.relays /\ installed'.haproxy = installed.haproxy
    BY <1>1, <2>4
  <2> QED
    BY <1>1, <2>3, <2>5 DEF InstalledResolves
<1>4. ASSUME kind # "routes"
      PROVE  /\ DOMAIN installed' = Deployments /\ installed'[kind] = plan.config
             /\ \A k \in Deployments \ {kind} : installed'[k] = installed[k]
  BY <1>2, <1>4 DEF Install
<1>5. CASE kind = "singbox"
  <2>1. plan = BuildRoutedPlan(read.outbounds, read.credentials, installed.routes)
    BY <1>2, <1>5 DEF Plan
  <2>2. \A r \in DOMAIN installed.routes :
          installed.routes[r].selected \in DOMAIN plan.config \cup {Direct}
    BY <1>2, <2>1, RoutedPlanResolves
  <2>3. /\ installed'.singbox = plan.config /\ installed'.routes = installed.routes
        /\ installed'.relays = installed.relays /\ installed'.haproxy = installed.haproxy
    BY <1>1, <1>4, <1>5
  <2> QED
    BY <1>1, <1>4, <1>5, <2>2, <2>3 DEF InstalledResolves
<1>6. CASE kind = "relays"
  <2>1. plan = relayBuildPlan(read.relays, read.outbounds, read.credentials)
    BY <1>2, <1>6 DEF Plan
  <2>2. \A r \in DOMAIN plan.config : plan.config[r].credential = plan.config[r].shape
    BY <1>2, <2>1, RelayPlanResolves
  <2>3. /\ installed'.relays = plan.config /\ installed'.routes = installed.routes
        /\ installed'.singbox = installed.singbox /\ installed'.haproxy = installed.haproxy
    BY <1>1, <1>4, <1>6
  <2> QED
    BY <1>1, <1>4, <1>6, <2>2, <2>3 DEF InstalledResolves
<1>7. CASE kind = "haproxy"
  <2>1. plan = haproxyBuildPlan(read.frontends, read.backends)
    BY <1>2, <1>7 DEF Plan
  <2>2. \A f \in DOMAIN plan.config : Enabled(plan.config[f]) # {}
    BY <1>2, <2>1, HAProxyPlanResolves
  <2>3. /\ installed'.haproxy = plan.config /\ installed'.routes = installed.routes
        /\ installed'.singbox = installed.singbox /\ installed'.relays = installed.relays
    BY <1>1, <1>4, <1>7
  <2> QED
    BY <1>1, <1>4, <1>7, <2>2, <2>3 DEF InstalledResolves
<1>8. CASE kind \in {"nat", "xray"}
  <2>1. /\ installed'.haproxy = installed.haproxy /\ installed'.routes = installed.routes
        /\ installed'.singbox = installed.singbox /\ installed'.relays = installed.relays
    BY <1>1, <1>4, <1>8
  <2> QED
    BY <1>1, <1>4, <1>8, <2>1 DEF InstalledResolves
<1> QED
  BY <1>1, <1>3, <1>5, <1>6, <1>7, <1>8

\* The end of an apply, of what was reviewed or of what was sent.
LEMMA ApplyEnds ==
  ASSUME IInv, NEW a \in Admins, request[a].op = "apply", Done(a),
         \/ UNCHANGED installed
         \/ /\ Plan(request[a].kind, request[a].read).ok
            /\ Install(request[a].kind, Plan(request[a].kind, request[a].read).config),
         review' = review \/ review' = [review EXCEPT ![a] = None],
         UNCHANGED <<group, db, view, scan, edits>>
  PROVE  IInv'
<1>1. PanelOK /\ group \in Groups /\ DOMAIN installed = Deployments /\ InstalledResolves
  BY DEF IInv
<1>2. PICK g, d, D, kind, read : /\ g = group /\ d = db /\ D = Docs
                                 /\ kind = request[a].kind /\ read = request[a].read
  OBVIOUS
<1>3. kind \in Deployments
  BY <1>1, <1>2, GroupFacts DEF PanelOK, RequestOK
<1>4. DOMAIN installed' = Deployments /\ InstalledResolves'
  <2>1. CASE UNCHANGED installed
    BY <1>1, <2>1 DEF InstalledResolves
  <2>2. CASE ~UNCHANGED installed
    BY <1>1, <1>2, <1>3, <2>2, InstallResolves
  <2> QED
    BY <2>1, <2>2
<1>5. /\ DOMAIN review' = Admins /\ ReviewOK(review'[a], g)
      /\ \A b \in Admins \ {a} : review'[b] = review[b]
  BY <1>1, <1>2 DEF PanelOK, ReviewOK
<1>6. \A b \in Admins : RequestOK(b, request[b], review[b], mutex, g, d, D)
  BY <1>1, <1>2 DEF PanelOK
<1>7. /\ DOMAIN request' = Admins /\ mutex' \in Admins \cup {None}
      /\ \A b \in Admins \ {a} : request'[b] = request[b]
      /\ \A r : RequestOK(a, request'[a], r, mutex', g, d, D)
      /\ \A b \in Admins \ {a} : RequestOK(b, request[b], review[b], mutex', g, d, D)
      /\ \A n : EditsOK(n, request, g) => EditsOK(n, request', g)
  BY <1>1, <1>2, <1>6, Answered
<1>8. \A b \in Admins : RequestOK(b, request'[b], review'[b], mutex', g, d, D)
  BY <1>5, <1>7
<1>9. \A b \in Admins : ReviewOK(review'[b], g)
  BY <1>1, <1>2, <1>5 DEF PanelOK
<1> QED
  BY <1>1, <1>2, <1>4, <1>5, <1>7, <1>8, <1>9, AnswerStep DEF PanelOK

LEMMA FinishApplyStep == ASSUME IInv, NEW a \in Admins, FinishApply(a) PROVE IInv'
<1>1. /\ request[a].op = "apply" /\ Done(a)
      /\ review' = [review EXCEPT ![a] = None]
      /\ UNCHANGED <<group, db, view, scan, edits>>
  BY DEF FinishApply, Loaded
<1>2. \/ UNCHANGED installed
      \/ /\ Plan(request[a].kind, request[a].read).ok
         /\ Install(request[a].kind, Plan(request[a].kind, request[a].read).config)
  BY DEF FinishApply, AsReviewed
<1> QED
  BY <1>1, <1>2, ApplyEnds

LEMMA SubmitStep == ASSUME IInv, NEW a \in Admins, Submit(a) PROVE IInv'
<1>1. /\ request[a].op = "apply" /\ Done(a) /\ review' = review
      /\ UNCHANGED <<group, db, view, scan, edits>>
  BY DEF Submit, Loaded
<1>2. \/ UNCHANGED installed
      \/ /\ Plan(request[a].kind, request[a].read).ok
         /\ Install(request[a].kind, Plan(request[a].kind, request[a].read).config)
  BY DEF Submit
<1> QED
  BY <1>1, <1>2, ApplyEnds

\* Steps of the client that walks the pages.
LEMMA ScanStep ==
  ASSUME IInv, ScanOK(scan'),
         UNCHANGED <<group, db, view, review, request, mutex, installed, edits>>
  PROVE  IInv'
<1>1. Docs' = Docs
  BY DocsStay
<1>2. PanelOK'
  BY <1>1 DEF IInv, PanelOK
<1>3. InstalledResolves'
  BY DEF IInv, InstalledResolves
<1> QED
  BY <1>1, <1>2, <1>3 DEF IInv

LEMMA StartScanStep == ASSUME IInv, NEW t \in Tables, StartScan(t) PROVE IInv'
<1>1. RowsOK(db, Docs)
  BY DEF IInv, DbOK
<1>2. scan' = [table |-> t, after |-> 0, listed |-> <<>>,
               steady |-> Listed(db, t, Present(db, t)), more |-> TRUE]
  BY DEF StartScan, Listed
<1>3. WalkOK(scan')
  BY <1>1, <1>2, WalkBegins
<1> QED
  BY <1>3, ScanStep DEF ScanOK, StartScan

LEMMA NextPageStep == ASSUME IInv, NextPage PROVE IInv'
<1>1. RowsOK(db, Docs) /\ WalkOK(scan) /\ scan.more
  BY DEF IInv, DbOK, ScanOK, NextPage
<1>2. PICK d, s, D : d = db /\ s = scan /\ D = Docs
  OBVIOUS
<1>3. PICK R : R = {i \in Present(d, s.table) : i > s.after}
  OBVIOUS
<1>4. PICK page : page = FirstRows(R, PageSize)
  OBVIOUS
<1>5. PICK more \in BOOLEAN : more <=> Cardinality(FirstRows(R, PageSize + 1)) > PageSize
  OBVIOUS
<1>6. PICK after : after = IF more THEN NextCursor(FirstRows(R, PageSize + 1), page) ELSE s.after
  OBVIOUS
<1>7. PICK l : l = Listed(d, s.table, page)
  OBVIOUS
<1>8. WalkOK([table |-> s.table, after |-> after, listed |-> Append(s.listed, l),
              steady |-> Still(s, d), more |-> more])
  BY <1>1, <1>2, <1>3, <1>4, <1>5, <1>6, <1>7, WalkGoesOn
<1>9. /\ Page(db, scan.table, scan.after, PageSize) = page
      /\ Page(db, scan.table, scan.after, PageSize + 1) = FirstRows(R, PageSize + 1)
  BY <1>2, <1>3, <1>4, PageIsFirstRows
<1>10. scan' = [scan EXCEPT
         !.after  = after,
         !.listed = Append(@, l),
         !.steady = Still(s, d),
         !.more   = more]
  <2>1. PICK items : items = FirstRows(R, PageSize + 1)
    OBVIOUS
  <2>2. {<<i, d[s.table][i].born>> : i \in page} = l
    BY <1>7 DEF Listed
  <2>3. {p \in s.steady : p[1] \in Present(d, s.table) /\ d[s.table][p[1]].born = p[2]}
          = Still(s, d)
    BY DEF Still
  <2>4. scan' = [s EXCEPT
          !.after  = IF Cardinality(items) > PageSize THEN NextCursor(items, page) ELSE s.after,
          !.listed = Append(s.listed, {<<i, d[s.table][i].born>> : i \in page}),
          !.steady = {p \in s.steady : p[1] \in Present(d, s.table)
                                         /\ d[s.table][p[1]].born = p[2]},
          !.more   = Cardinality(items) > PageSize]
    BY <1>2, <1>9, <2>1, Zenon DEF NextPage
  <2>5. CASE Cardinality(items) > PageSize
    BY <1>2, <1>5, <1>6, <2>1, <2>2, <2>3, <2>4, <2>5
  <2>6. CASE ~(Cardinality(items) > PageSize)
    <3>1. more = FALSE /\ after = s.after
      BY <1>5, <1>6, <2>1, <2>6
    <3>2. (Cardinality(items) > PageSize) = FALSE
      BY <2>6
    <3>3. scan' = [s EXCEPT !.after = s.after, !.listed = Append(s.listed, l),
                            !.steady = Still(s, d), !.more = FALSE]
      BY <2>2, <2>3, <2>4, <3>2
    <3> QED
      BY <1>2, <3>1, <3>3
  <2> QED
    BY <2>5, <2>6
<1>11. s \in Walks
  BY <1>1, <1>2 DEF WalkOK
<1>12. scan' = [table |-> s.table, after |-> after, listed |-> Append(s.listed, l),
                steady |-> Still(s, d), more |-> more]
  BY <1>2, <1>10, <1>11 DEF Walks
<1> QED
  BY <1>8, <1>12, ScanStep DEF ScanOK, NextPage

------------------------------------------------------------------------------
(* The invariant holds. *)

LEMMA InvariantBegins == Init => IInv
<1> SUFFICES ASSUME Init PROVE IInv
  OBVIOUS
<1>1. group \in Groups /\ db \in Seeds /\ scan = None /\ edits = 0 /\ mutex = None
  BY DEF Init
<1>2. /\ DOMAIN view = Admins /\ DOMAIN review = Admins /\ DOMAIN request = Admins
      /\ \A a \in Admins : view[a] = None /\ review[a] = None /\ request[a] = Idle
  BY DEF Init
<1>3. DbOK(db, Docs)
  BY <1>1, SeedsAreWhole
<1>4. \A a \in Admins : request[a].op = "idle"
  BY <1>2 DEF Idle
<1>5. EditsOK(edits, request, group)
  BY <1>1, <1>4, GroupFacts DEF EditsOK
<1>6. PanelOK
  BY <1>1, <1>2, <1>4, <1>5 DEF PanelOK, ViewOK, RequestOK, ReviewOK
<1>7. DOMAIN installed = Deployments /\ InstalledResolves
  <2>1. installed = [k \in Deployments |-> <<>>]
    BY DEF Init
  <2>2. installed.routes = <<>> /\ installed.relays = <<>> /\ installed.haproxy = <<>>
    BY <2>1 DEF Deployments
  <2> QED
    BY <2>1, <2>2 DEF InstalledResolves
<1> QED
  BY <1>1, <1>3, <1>6, <1>7 DEF IInv, ScanOK

\* The statements that edit rows, whichever form or import they come from.
LEMMA EditsAreOne ==
  ASSUME IInv, NEW a \in Admins,
         \/ EditOutbound(a) \/ CloneRow(a) \/ Import(a)
         \/ EditRoute(a) \/ EditRelay(a) \/ EditForward(a)
         \/ EditBackend(a) \/ EditFrontend(a) \/ EditBinding(a)
  PROVE  EditDone(a)
  BY EditOutboundIsOne, CloneRowIsOne, ImportIsOne, EditRouteIsOne, EditRelayIsOne,
     EditForwardIsOne, EditBackendIsOne, EditFrontendIsOne, EditBindingIsOne

LEMMA InvariantStays == IInv /\ [Next]_vars => IInv'
<1> SUFFICES ASSUME IInv, [Next]_vars PROVE IInv'
  OBVIOUS
<1>1. CASE NextPage
  BY <1>1, NextPageStep
<1>2. CASE \E table \in Tables : StartScan(table)
  BY <1>2, StartScanStep
<1>3. ASSUME NEW a \in Admins, NEW table \in Tables, ReadRow(a, table) PROVE IInv'
  BY <1>3, ReadRowStep
<1>4. ASSUME NEW a \in Admins,
             \/ EditOutbound(a) \/ CloneRow(a) \/ Import(a)
             \/ EditRoute(a) \/ EditRelay(a) \/ EditForward(a)
             \/ EditBackend(a) \/ EditFrontend(a) \/ EditBinding(a)
      PROVE  IInv'
  BY <1>4, EditsAreOne, EditDoneStep
<1>5. ASSUME NEW a \in Admins, StartTest(a) \/ FinishTest(a) PROVE IInv'
  BY <1>5, StartTestStep, FinishTestStep
<1>6. ASSUME NEW a \in Admins, ReadTable(a) \/ ReadCredential(a) PROVE IInv'
  BY <1>6, ReadTableStep, ReadCredentialStep
<1>7. ASSUME NEW a \in Admins, NEW kind \in Deployments,
             StartPlan(a, kind) \/ StartApply(a, kind) \/ StartSubmit(a, kind)
      PROVE  IInv'
  BY <1>7, StartLoadStep
<1>8. ASSUME NEW a \in Admins, FinishPlan(a) \/ FinishApply(a) \/ Submit(a) PROVE IInv'
  BY <1>8, FinishPlanStep, FinishApplyStep, SubmitStep
<1>9. CASE UNCHANGED vars
  <2>1. Docs' = Docs /\ group' = group /\ db' = db /\ scan' = scan /\ installed' = installed
    BY <1>9, DocsStay DEF vars
  <2>2. PanelOK'
    BY <1>9, <2>1 DEF vars, IInv, PanelOK
  <2> QED
    BY <2>1, <2>2 DEF IInv, InstalledResolves
<1> QED
  BY <1>1, <1>2, <1>3, <1>4, <1>5, <1>6, <1>7, <1>8, <1>9 DEF Next

\* The whole invariant: what the tables keep to each other, what the rows on
\* screens and in tests still tell, what is installed, and what a walk has met.
THEOREM DesiredInvariantHolds == Spec => []IInv
  BY InvariantBegins, InvariantStays, PTL DEF Spec

\* Every variable keeps its type whatever administrators do to each other's
\* rows: identifiers are those of the tables, every revision and birth is
\* counted from one, credentials are shapes that exist.
THEOREM TypeCorrectness == Spec => []TypeOK
<1>1. IInv => TypeOK
  <2> SUFFICES ASSUME IInv PROVE TypeOK
    OBVIOUS
  <2>1. RowsOK(db, Docs) /\ RefsOK(db) /\ PanelOK /\ group \in Groups
    BY DEF IInv, DbOK
  <2>2. \A table \in Tables :
          /\ Present(db, table) \subseteq Ids
          /\ \A i \in Present(db, table) : db[table][i] \in RowOf(Docs[table])
    BY <2>1 DEF RowsOK, RowOK
  <2>3. \A i \in DOMAIN db.credentials : db.credentials[i] \in Shapes
    <3>1. SUFFICES ASSUME NEW i \in Present(db, "outbounds")
                   PROVE  db.credentials[i] \in Shapes
      BY <2>1 DEF RefsOK
    <3>2. db["outbounds"][i] \in RowOf(OutboundDocs)
      BY <2>2, DocumentsOfTables DEF Tables
    <3>3. db.outbounds[i].doc \in OutboundDocs
      BY <3>2 DEF RowOf
    <3> QED
      BY <2>1, <3>3 DEF RefsOK, OutboundDocs
  <2>4. \A i \in DOMAIN db.links : db.links[i] \subseteq Ids
    BY <2>1, <2>2 DEF RefsOK, LinkReferences, Tables
  <2>5. \A a \in Admins :
          /\ request[a].op \in {"idle", "test", "plan", "apply"}
          /\ view[a] # None => view[a].table \in group.tables
          /\ review[a] # None => review[a].kind \in group.kinds
    BY <2>1 DEF PanelOK, ViewOK, RequestOK, ReviewOK
  <2> QED
    BY <2>1, <2>2, <2>3, <2>4, <2>5 DEF TypeOK, PanelOK, EditsOK, IInv
<1> QED
  BY <1>1, DesiredInvariantHolds, PTL

\* Every stored credential is the one made for its outbound, every identifier
\* inside a stored definition names a stored row, and the links that guard a
\* backend against deletion are those of the frontend's definition: for any
\* interleaving of edits, imports, clones and tests.
THEOREM ReferencesAreKept == Spec => []ReferencesResolve
<1>1. IInv => ReferencesResolve
  <2> SUFFICES ASSUME IInv PROVE ReferencesResolve
    OBVIOUS
  <2>1. RefsOK(db)
    BY DEF IInv, DbOK
  <2> QED
    BY <2>1 DEF RefsOK, LinkReferences, ReferencesResolve
<1> QED
  BY <1>1, DesiredInvariantHolds, PTL

\* What is installed refers to nothing that is not installed, although the rows
\* of a plan are read by several queries and edited in between: every planner
\* checks what it has read.
THEOREM InstalledIsWhole == Spec => []InstalledResolves
<1>1. IInv => InstalledResolves
  BY DEF IInv
<1> QED
  BY <1>1, DesiredInvariantHolds, PTL

\* A client that follows the cursors meets every row that was there all along,
\* and none twice, for any size of page and any edits between two pages.
THEOREM ScansAreComplete == Spec => []ScanComplete
<1>1. IInv => ScanComplete
  BY DEF IInv, ScanOK, WalkOK, Met, ScanComplete
<1> QED
  BY <1>1, DesiredInvariantHolds, PTL

------------------------------------------------------------------------------
(* What no step may do. *)

\* Rows are written by edits and by the end of a connection test, and the
\* host by the end of an apply.
LEMMA StepKinds ==
  ASSUME IInv, [Next]_vars
  PROVE  \/ UNCHANGED <<db, installed>>
         \/ \E a \in Admins : EditDone(a) \/ FinishTest(a) \/ FinishApply(a) \/ Submit(a)
<1>1. CASE NextPage
  BY <1>1 DEF NextPage
<1>2. CASE \E table \in Tables : StartScan(table)
  BY <1>2 DEF StartScan
<1>3. ASSUME NEW a \in Admins, NEW table \in Tables, ReadRow(a, table)
      PROVE  UNCHANGED <<db, installed>>
  BY <1>3 DEF ReadRow
<1>4. ASSUME NEW a \in Admins,
             \/ EditOutbound(a) \/ CloneRow(a) \/ Import(a)
             \/ EditRoute(a) \/ EditRelay(a) \/ EditForward(a)
             \/ EditBackend(a) \/ EditFrontend(a) \/ EditBinding(a)
      PROVE  EditDone(a)
  BY <1>4, EditsAreOne
<1>5. ASSUME NEW a \in Admins, StartTest(a) PROVE UNCHANGED <<db, installed>>
  BY <1>5 DEF StartTest
<1>6. ASSUME NEW a \in Admins, ReadTable(a) \/ ReadCredential(a) \/ FinishPlan(a)
      PROVE  UNCHANGED <<db, installed>>
  BY <1>6 DEF ReadTable, ReadCredential, FinishPlan
<1>7. ASSUME NEW a \in Admins, NEW kind \in Deployments,
             StartPlan(a, kind) \/ StartApply(a, kind) \/ StartSubmit(a, kind)
      PROVE  UNCHANGED <<db, installed>>
  BY <1>7 DEF StartPlan, StartApply, StartSubmit, StartLoad
<1>8. CASE UNCHANGED vars
  BY <1>8 DEF vars
<1> QED
  BY <1>1, <1>2, <1>3, <1>4, <1>5, <1>6, <1>7, <1>8 DEF Next

\* A row that a write changes or takes away had the revision of its author.
LEMMA OverwrittenRevision ==
  ASSUME DbOK(db, Docs), NEW t0, NEW i0, NEW rev, Written(db, db', t0, i0, rev),
         NEW t \in Tables, NEW i \in Ids, Overwritten(t, i)
  PROVE  /\ t = t0 /\ i = i0 /\ rev # 0
         /\ i \in Present(db, t) /\ db[t][i].revision = rev
<1>1. i \in Present(db, t) /\ RowOK(db, db[t][i], Docs[t])
  BY DEF Overwritten, DbOK, RowsOK
<1>2. RowWritten(db, db', t, i, t0, i0, rev)
  BY <1>1 DEF Written
<1>3. t = t0 /\ i = i0 /\ db[t][i].revision = rev
  BY <1>2 DEF RowWritten, Overwritten
<1>4. db[t][i].revision # 0
  BY <1>1 DEF RowOK, RowOf
<1> QED
  BY <1>1, <1>3, <1>4

\* An author whose row is of the stored birth and revision has read the stored
\* document.
LEMMA AuthorHasRead ==
  ASSUME NEW D, NEW d, NEW t, NEW i, NEW row, SeenOK(row, t, i, d, D),
         i \in Present(d, t), d[t][i].revision = row.revision
  PROVE  row.doc = d[t][i].doc \/ row.born # d[t][i].born
  BY DEF SeenOK

\* No write destroys an edit its author has not seen, by a form or by a slow
\* connection test, for any number of administrators: the revision in the
\* WHERE clause and the birth of the row decide the document.
THEOREM NoEditIsLost == Spec => NoLostEdit
<1> DEFINE Kept ==
             \A table \in Tables, i \in Ids : Overwritten(table, i) =>
               \E a \in Admins :
                 /\ Acts(a)
                 /\ \E row \in Seen(a, table, i) :
                      row.doc = db[table][i].doc \/ row.born # db[table][i].born
<1>1. IInv /\ [Next]_vars => Kept
  <2> SUFFICES ASSUME IInv, [Next]_vars, NEW t \in Tables, NEW i \in Ids, Overwritten(t, i)
               PROVE  \E a \in Admins :
                        /\ Acts(a)
                        /\ \E row \in Seen(a, t, i) :
                             row.doc = db[t][i].doc \/ row.born # db[t][i].born
    OBVIOUS
  <2> DEFINE Read == \E a \in Admins :
                       /\ Acts(a)
                       /\ \E row \in Seen(a, t, i) :
                            row.doc = db[t][i].doc \/ row.born # db[t][i].born
  <2> SUFFICES Read
    OBVIOUS
  <2>1. DbOK(db, Docs) /\ PanelOK
    BY DEF IInv
  <2>2. ASSUME NEW a \in Admins, EditDone(a) PROVE Read
    <3>1. PICK answer, t0, i0, rev :
            /\ AnswerOK(db, answer, Docs, t0, i0, rev)
            /\ Commit(a, answer)
            /\ Author(a, t0, i0, rev) \/ rev = 0
      BY <2>2 DEF EditDone
    <3>2. Written(db, db', t0, i0, rev) /\ view' = [view EXCEPT ![a] = None]
      BY <3>1 DEF AnswerOK, Commit
    <3>3. /\ t = t0 /\ i = i0 /\ rev # 0
          /\ i \in Present(db, t) /\ db[t][i].revision = rev
      BY <2>1, <3>2, OverwrittenRevision
    <3>4. view[a] # None /\ view[a].table = t /\ view[a].id = i /\ view[a].row.revision = rev
      BY <3>1, <3>3 DEF Author
    <3>5. Acts(a)
      BY <2>1, <3>2, <3>4 DEF Acts, PanelOK
    <3>6. SeenOK(view[a].row, t, i, db, Docs)
      BY <2>1, <3>4 DEF PanelOK, ViewOK
    <3>7. view[a].row.doc = db[t][i].doc \/ view[a].row.born # db[t][i].born
      BY <3>3, <3>4, <3>6, AuthorHasRead
    <3>8. view[a].row \in Seen(a, t, i)
      BY <3>4 DEF Seen
    <3> QED
      BY <3>5, <3>7, <3>8
  <2>3. ASSUME NEW a \in Admins, FinishTest(a) PROVE Read
    <3>1. request[a].op = "test" /\ Done(a)
      BY <2>3 DEF FinishTest
    <3>2. PICK health \in Healths :
            db' = UpdateOutbound(db, request[a].id, request[a].row.revision,
                                 [request[a].row.doc EXCEPT !.health = health]).db
      BY <2>3 DEF FinishTest
    <3>3. PICK t0, i0, rev : t0 = "outbounds" /\ i0 = request[a].id /\ rev = request[a].row.revision
      OBVIOUS
    <3>4. Written(db, db', t0, i0, rev)
      BY <3>1, <3>2, <3>3, TestAnswer DEF AnswerOK
    <3>5. /\ t = t0 /\ i = i0
          /\ i \in Present(db, t) /\ db[t][i].revision = rev
      BY <2>1, <3>4, OverwrittenRevision
    <3>6. Acts(a)
      <4>1. request'[a].op = "idle"
        BY <2>1, <3>1, Answered
      <4> QED
        BY <3>1, <4>1 DEF Acts
    <3>7. SeenOK(request[a].row, t, i, db, Docs)
      BY <2>1, <3>1, <3>3, <3>5 DEF PanelOK, RequestOK
    <3>8. request[a].row.doc = db[t][i].doc \/ request[a].row.born # db[t][i].born
      BY <3>3, <3>5, <3>7, AuthorHasRead
    <3>9. request[a].row \in Seen(a, t, i)
      BY <3>1, <3>3, <3>5 DEF Seen
    <3> QED
      BY <3>6, <3>8, <3>9
  <2>4. CASE UNCHANGED db
    BY <2>4 DEF Overwritten, Present
  <2>5. ASSUME NEW a \in Admins, FinishApply(a) \/ Submit(a) PROVE UNCHANGED db
    BY <2>5 DEF FinishApply, Submit
  <2> HIDE DEF Read
  <2> QED
    BY <2>2, <2>3, <2>4, <2>5, StepKinds
<1> QED
  BY <1>1, DesiredInvariantHolds, PTL DEF Spec, NoLostEdit

\* An apply changes sing-box, routes, relays and Xray only into what its administrator
\* reviewed, from the installed state of the review, for any interleaving of
\* plans, applies and edits: both hashes are compared again under the mutex.
THEOREM AppliesAreReviewed == Spec => AppliedAsReviewed
<1> DEFINE Approved(kind) ==
             \E a \in Admins :
               /\ Acts(a)
               /\ review[a] # None
               /\ review[a].state = Owned(review[a].kind)
               /\ review[a].candidate = (IF review[a].kind = "routes"
                                         THEN [routes |-> installed'.routes,
                                               singbox |-> installed'.singbox]
                                         ELSE installed'[kind])
           Reviews == \A kind \in Reviewed :
                        installed'[kind] # installed[kind] => Approved(kind)
<1>1. IInv /\ [Next]_vars => Reviews
  <2> SUFFICES ASSUME IInv, [Next]_vars, NEW k \in Reviewed,
                      installed'[k] # installed[k]
               PROVE  Approved(k)
    OBVIOUS
  <2>1. PanelOK /\ group \in Groups /\ DOMAIN installed = Deployments
    BY DEF IInv
  <2>2. ASSUME NEW a \in Admins, FinishApply(a) PROVE Approved(k)
    <3>1. PICK kind, plan : kind = request[a].kind /\ plan = Plan(kind, request[a].read)
      OBVIOUS
    <3>2. AsReviewed(a, kind, plan) /\ Install(kind, plan.config)
      BY <2>2, <3>1 DEF FinishApply
    <3>3. request[a].op = "apply" /\ kind \in Reviewed /\ Done(a)
      BY <2>2, <3>1 DEF FinishApply, Loaded
    <3>4. review[a] # None /\ review[a].kind = kind
      BY <2>1, <3>1, <3>3 DEF PanelOK, RequestOK
    <3>5. plan.ok /\ plan.config = review[a].candidate /\ Owned(kind) = review[a].state
      BY <3>2 DEF AsReviewed
    <3>6. Acts(a)
      <4>1. request'[a].op = "idle"
        BY <2>1, <3>3, Answered
      <4> QED
        BY <3>3, <4>1 DEF Acts
    <3>7. CASE kind = "routes"
      <4>1. PICK r, s : plan.config = [routes |-> r, singbox |-> s]
        BY <3>1, <3>7 DEF Plan, Planned
      <4>2. installed' = [installed EXCEPT !.routes = r, !.singbox = s]
        BY <3>2, <3>7, <4>1 DEF Install
      <4>3. installed'.routes = r /\ installed'.singbox = s
        BY <2>1, <4>2 DEF Deployments
      <4> QED
        BY <3>4, <3>5, <3>6, <3>7, <4>1, <4>3
    <3>8. CASE kind # "routes"
      <4>1. installed' = [installed EXCEPT ![kind] = plan.config]
        BY <3>2, <3>8 DEF Install
      <4>2. kind \in Deployments /\ k \in Deployments
        BY <3>3 DEF Reviewed, Deployments
      <4>3. k = kind /\ installed'[k] = plan.config
        BY <2>1, <4>1, <4>2
      <4> QED
        BY <3>4, <3>5, <3>6, <3>8, <4>3
    <3> QED
      BY <3>7, <3>8
  <2>3. ASSUME NEW a \in Admins, Submit(a) PROVE installed'[k] = installed[k]
    <3>1. PICK kind, plan : kind = request[a].kind /\ plan = Plan(kind, request[a].read)
      OBVIOUS
    <3>2. kind \notin Reviewed /\ kind # "routes" /\ kind # k
      BY <2>3, <3>1 DEF Submit, Reviewed
    <3>3. UNCHANGED installed \/ installed' = [installed EXCEPT ![kind] = plan.config]
      BY <2>3, <3>1, <3>2 DEF Submit, Install
    <3>4. k \in DOMAIN installed
      BY <2>1 DEF Reviewed, Deployments
    <3> QED
      BY <3>2, <3>3, <3>4
  <2>4. ASSUME NEW a \in Admins, EditDone(a) \/ FinishTest(a) PROVE UNCHANGED installed
    BY <2>4 DEF EditDone, Commit, FinishTest
  <2> HIDE DEF Approved
  <2> QED
    BY <2>2, <2>3, <2>4, StepKinds
<1> QED
  BY <1>1, DesiredInvariantHolds, PTL DEF Spec, AppliedAsReviewed

===============================================================================
