---------------------------- MODULE NoticeStore ----------------------------
(***************************************************************************)
(* mong-c-test: what DBIOMongoDB stores in a collection and what it reads  *)
(* back.  A document has string fields (flat) and arrays of notices, a     *)
(* notice being a map from strings to strings; both are written by         *)
(* BSON_APPEND_UTF8 and read by GetRecord and GetVecRecord.  MongoPool     *)
(* models how a call gets the client it needs.                             *)
(*                                                                         *)
(* The server is external: an update without operators replaces the first  *)
(* document that matches, $push appends to its arrays, making those that   *)
(* are missing, $pull removes every element that has the given fields, a   *)
(* command that matches nothing succeeds, and the call returns false when  *)
(* the command or only its reply was lost.                                 *)
(***************************************************************************)
EXTENDS Integers, Sequences, SequencesExt, FiniteSets

CONSTANTS
  Id,        \* the maps used as id_map
  Record,    \* the maps written by insert_coll and update_coll
  FieldSeq,  \* the names of the arrays, in the order of std::map
  Notice,    \* the notices
  MaxDocs,   \* bound: documents in the collection
  MaxItems,  \* bound: notices in an array
  MaxNew     \* bound: notices InsertNoticeColl puts in an array

Field == Range(FieldSeq)

ASSUME StoreAssumption == FieldSeq \in Seq(Field)

VARIABLES
  coll,   \* the collection, a sequence of documents
  reply   \* what the last call returned

storeVars == <<coll, reply>>

StoreInit == coll = << >> /\ reply = FALSE
-----------------------------------------------------------------------------
\* The elements of s at the indices in keep, in their order.
Kept(s, keep) ==
  LET kept[k \in 0..Len(s)] ==
        IF k = 0 THEN << >>
        ELSE IF k \in keep THEN Append(kept[k - 1], s[k]) ELSE kept[k - 1]
  IN  kept[Len(s)]

\* m has the fields of pattern with their values.
Has(m, pattern) ==
  \A k \in DOMAIN pattern : k \in DOMAIN m /\ m[k] = pattern[k]

Matching(query) == {i \in DOMAIN coll : Has(coll[i].flat, query)}

\* The first document that matches the query is given the value F(it).
Updated(query, F(_)) ==
  IF Matching(query) = {} THEN coll
  ELSE LET i == Min(Matching(query)) IN ReplaceAt(coll, i, F(coll[i]))

\* A command that turns the collection into c: done or not, and answered or not.
Command(c) ==
  \/ coll' = c /\ reply' \in BOOLEAN
  \/ UNCHANGED coll /\ reply' = FALSE

\* Every operation but insert_coll and the selects: an empty map is refused.
Refuse == reply' = FALSE /\ UNCHANGED coll

\* Where d has the arrays whose name is in F.
Named(d, F) == {i \in DOMAIN d.arrays : d.arrays[i].name \in F}

\* {"$push": {f: m[f], ...}} on document d.
Pushed(d, m) ==
  LET appended == [i \in DOMAIN d.arrays |->
                     LET a == d.arrays[i] IN
                     IF a.name \in DOMAIN m
                       THEN [a EXCEPT !.items = Append(@, m[a.name])] ELSE a]
      new == Kept(FieldSeq, {k \in DOMAIN FieldSeq :
                               FieldSeq[k] \in DOMAIN m /\ Named(d, {FieldSeq[k]}) = {}})
  IN  [d EXCEPT !.arrays =
         appended \o [i \in DOMAIN new |-> [name |-> new[i], items |-> <<m[new[i]]>>]]]

\* {"$pull": {f: m[f], ...}} on document d.
Pulled(d, m) ==
  [d EXCEPT !.arrays = [i \in DOMAIN @ |->
     LET a == @[i] IN
     IF a.name \in DOMAIN m
       THEN [a EXCEPT !.items = Kept(@, {k \in DOMAIN @ : ~Has(@[k], m[a.name])})] ELSE a]]

HasRoom(query, m) ==
  \A i \in Matching(query), f \in DOMAIN m :
    \A j \in Named(coll[i], {f}) : Len(coll[i].arrays[j].items) < MaxItems
-----------------------------------------------------------------------------
\* DBIOMongoDB::insert_coll.
insert_coll(m) ==
  /\ Len(coll) < MaxDocs
  /\ Command(Append(coll, [flat |-> m, arrays |-> << >>]))

\* DBIOMongoDB::delete_coll: one document.
delete_coll(m) ==
  IF DOMAIN m = {} THEN Refuse
  ELSE Command(IF Matching(m) = {} THEN coll ELSE RemoveAt(coll, Min(Matching(m))))

\* Mutant: the query and the document change places.
update_coll_swapped(query, m) ==
  IF DOMAIN m = {} \/ DOMAIN query = {} THEN Refuse
  ELSE Command(Updated(m, LAMBDA d : [flat |-> query, arrays |-> << >>]))

\* DBIOMongoDB::update_coll: the document is replaced.
update_coll(query, m) ==
  IF DOMAIN m = {} \/ DOMAIN query = {} THEN Refuse
  ELSE Command(Updated(query, LAMBDA d : [flat |-> m, arrays |-> << >>]))

\* DBIOMongoDB::InsertNoticeColl: the id fields, then an array for each entry
\* of m, in the order of its keys.
InsertNoticeColl(id, m) ==
  /\ Len(coll) < MaxDocs
  /\ LET names == Kept(FieldSeq, {k \in DOMAIN FieldSeq : FieldSeq[k] \in DOMAIN m})
         arrays == [i \in DOMAIN names |-> [name |-> names[i], items |-> m[names[i]]]]
     IN  IF DOMAIN m = {} THEN Refuse
         ELSE Command(Append(coll, [flat |-> id, arrays |-> arrays]))

\* Mutant: "$pull" for "$push".
PushNoticeCollPulls(id, m) ==
  /\ HasRoom(id, m)
  /\ IF DOMAIN m = {} THEN Refuse ELSE Command(Updated(id, LAMBDA d : Pulled(d, m)))

\* DBIOMongoDB::PushNoticeColl.
PushNoticeColl(id, m) ==
  /\ HasRoom(id, m)
  /\ IF DOMAIN m = {} THEN Refuse ELSE Command(Updated(id, LAMBDA d : Pushed(d, m)))

\* Mutant: the map is not taken apart, and only its first array is pulled from.
DelNoticeCollFirst(id, m) ==
  LET f == CHOOSE g \in DOMAIN m : TRUE IN
  IF DOMAIN m = {} THEN Refuse ELSE Command(Updated(id, LAMBDA d : Pulled(d, [g \in {f} |-> m[g]])))

\* DBIOMongoDB::DelNoticeColl.
DelNoticeColl(id, m) ==
  IF DOMAIN m = {} THEN Refuse ELSE Command(Updated(id, LAMBDA d : Pulled(d, m)))

\* The maps from some of the arrays' names to S.
Choice(S) == UNION {[F -> S] : F \in SUBSET Field}

StoreNext ==
  \/ \E m \in Record : insert_coll(m)
  \/ \E m \in Id \cup {<< >>} : delete_coll(m)
  \/ \E query \in Id \cup {<< >>}, m \in Record : update_coll(query, m)
  \/ \E id \in Id, m \in Choice(BoundedSeq(Notice, MaxNew)) : InsertNoticeColl(id, m)
  \/ \E id \in Id, m \in Choice(Notice) : PushNoticeColl(id, m)
  \/ \E id \in Id, m \in Choice(Notice) : DelNoticeColl(id, m)

StoreSpec == StoreInit /\ [][StoreNext]_storeVars
-----------------------------------------------------------------------------
\* GetRecord: the string fields of a document, unless it has none.
GetRecord(d, msg_data) ==
  IF DOMAIN d.flat = {} THEN msg_data ELSE Append(msg_data, d.flat)

\* DBIOMongoDB::select_coll, the whole cursor read; by id_ the query is empty.
select_coll(query) ==
  LET docs == Kept(coll, Matching(query))
      out[k \in 0..Len(docs)] == IF k = 0 THEN << >> ELSE GetRecord(docs[k], out[k - 1])
  IN  out[Len(docs)]

\* One turn of GetVecRecord's loop over an array: tmp_data takes the element's
\* fields on top of those it has, and is pushed.
GetElement(acc, n) ==
  LET tmp_data == [k \in DOMAIN n \cup DOMAIN acc.tmp_data |->
                     IF k \in DOMAIN n THEN n[k] ELSE acc.tmp_data[k]]
  IN  [tmp_data |-> tmp_data, msg_data |-> Append(acc.msg_data, tmp_data)]

\* Mutant: without tmp_data.clear().
GetArrayUncleared(acc, a) ==
  LET out[k \in 0..Len(a.items)] == IF k = 0 THEN acc ELSE GetElement(out[k - 1], a.items[k])
  IN  out[Len(a.items)]

\* Its case for an array, which clears tmp_data first.
GetArray(acc, a) ==
  LET out[k \in 0..Len(a.items)] ==
        IF k = 0 THEN [acc EXCEPT !.tmp_data = << >>] ELSE GetElement(out[k - 1], a.items[k])
  IN  out[Len(a.items)]

\* GetVecRecord: the string fields come first and go to tmp_data.
GetVecRecord(d, msg_data) ==
  LET out[k \in 0..Len(d.arrays)] ==
        IF k = 0 THEN [tmp_data |-> d.flat, msg_data |-> msg_data]
        ELSE GetArray(out[k - 1], d.arrays[k])
  IN  out[Len(d.arrays)].msg_data

\* The fields of d that the server returns when asked for those of F: all of
\* them when F is empty.
Projection(d, F) ==
  IF F = {} THEN d
  ELSE [flat |-> [k \in DOMAIN d.flat \cap F |-> d.flat[k]],
        arrays |-> Kept(d.arrays, Named(d, F))]

Found(id, F) ==
  Kept([i \in DOMAIN coll |-> Projection(coll[i], F)], Matching(id))

\* The loop over the cursor.
Rows(docs) ==
  LET out[k \in 0..Len(docs)] == IF k = 0 THEN << >> ELSE GetVecRecord(docs[k], out[k - 1])
  IN  out[Len(docs)]

\* DBIOMongoDB::SelectNoticeColl and select_coll_by_fields, the whole cursor
\* read.
SelectNoticeColl(id, F) == Rows(Found(id, F))
-----------------------------------------------------------------------------
\* For each row of SelectNoticeColl the notice it should be, with the array it
\* is in.
SourcesOf(docs) ==
  FlattenSeq([i \in DOMAIN docs |->
    FlattenSeq([j \in DOMAIN docs[i].arrays |->
      LET items == docs[i].arrays[j].items
      IN  [k \in DOMAIN items |-> [items |-> items, at |-> k]]])])

Sources(id, F) == SourcesOf(Found(id, F))

\* SelectNoticeColl returns one row for each stored notice, in order.  The row
\* has every field of the notice with its value, although tmp_data is shared
\* by the elements of an array, and no field but those of its notice and of
\* the notices before it in the same array: no id field, nothing of another
\* array or document.  So rows are exact when the notices of an array have the
\* same fields.
RowsHoldNotices ==
  \A id \in Id, F \in SUBSET Field :
    LET rows == SelectNoticeColl(id, F)
        src == Sources(id, F)
    IN  /\ Len(rows) = Len(src)
        /\ \A i \in DOMAIN rows :
             /\ Has(rows[i], src[i].items[src[i].at])
             /\ DOMAIN rows[i] \subseteq UNION {DOMAIN src[i].items[j] : j \in 1..src[i].at}

Alike(items) == \A m, n \in Range(items) : DOMAIN m = DOMAIN n

\* No row of SelectNoticeColl for array f has the fields of n, if the notices
\* of an array have all the same fields.
Gone(id, f, n) ==
  LET rows == SelectNoticeColl(id, {f})
      src == Sources(id, {f})
  IN  (\A i \in DOMAIN src : Alike(src[i].items))
        => \A i \in DOMAIN rows : ~Has(rows[i], n)

\* Once DelNoticeColl has returned true for an id with one document, no row of
\* SelectNoticeColl for an array has the deleted fields, if its notices have
\* all the same fields.
DeletedIsGone ==
  [][\A id \in Id, m \in Choice(Notice) :
       reply' /\ Cardinality(Matching(id)) = 1 /\ DelNoticeColl(id, m)
         => \A f \in DOMAIN m : Gone(id, f, m[f])']_storeVars

\* The last row of SelectNoticeColl for array f has notice n.
Seen(id, f, n) ==
  LET rows == SelectNoticeColl(id, {f})
  IN  rows # << >> /\ Has(Last(rows), n)

\* Once PushNoticeColl has returned true for an id with one document, the last
\* row of SelectNoticeColl for each array it names has the pushed notice.
PushedIsSeen ==
  [][\A id \in Id, m \in Choice(Notice) :
       reply' /\ Cardinality(Matching(id)) = 1 /\ PushNoticeColl(id, m)
         => \A f \in DOMAIN m : Seen(id, f, m[f])']_storeVars

\* Once update_coll has returned true for a query that matched, select_coll
\* returns the new record as it was given, if it still has the query's fields.
UpdatedIsFound ==
  [][\A query \in Id, m \in Record :
       reply' /\ Matching(query) # {} /\ Has(m, query) /\ update_coll(query, m)
         => m \in Range(select_coll(query)')]_storeVars
=============================================================================
