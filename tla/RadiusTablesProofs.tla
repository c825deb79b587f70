------------------------- MODULE RadiusTablesProofs -------------------------
(***************************************************************************)
(* Proofs about SessionIndex and EapConversations, for every number of     *)
(* handlers, sessions, clients and State values and for every capacity.    *)
(*                                                                         *)
(* The methods of the session index are reduced to three edits of a table, *)
(* each of which keeps rows, keys and the byte account in agreement:       *)
(* removing rows, refreshing one, and adding one.  Every handler's step is *)
(* then one edit, or two, and hands out or forgets a copy of a row.        *)
(***************************************************************************)
EXTENDS EapConversations, SessionIndex, FiniteSetTheorems, TLAPS

-----------------------------------------------------------------------------
(* The session index: edits of a table.                                    *)

(* Rows and the keys that lead to them agree, and the byte account and the *)
(* number of rows are right.                                               *)
Linked(rows, keys) ==
  /\ \A k \in Keys : keys[k] # Nil => rows[keys[k]] # Nil /\ rows[keys[k]].key = k
  /\ \A h \in Rows(rows) : keys[rows[h].key] = h
Sound(rows, keys, n) ==
  /\ rows \in [Handles -> Row \cup {Nil}]
  /\ keys \in [Keys -> Handles \cup {Nil}]
  /\ Linked(rows, keys)
  /\ n = SizeOf(rows, Rows(rows))
  /\ Cardinality(Rows(rows)) <= MaxRows

(* Handles are finitely many, so every set of them can be counted.         *)
LEMMA HandlesFinite ==
  ASSUME NEW hs, hs \subseteq Handles
  PROVE  IsFiniteSet(hs) /\ Cardinality(hs) \in Nat
  <1>1. IsFiniteSet(Handles)
    BY FS_Interval, IndexAssumption DEF Handles
  <1> QED BY <1>1, FS_Subset, FS_CardinalityType

(* SizeOf looks only at the rows it is asked about.                        *)
LEMMA SizeOfSame ==
  ASSUME NEW rows, NEW others, NEW hs, \A h \in hs : rows[h] = others[h]
  PROVE  SizeOf(rows, hs) = SizeOf(others, hs)
  <1>1. {h \in hs : rows[h].coa # Nil} = {h \in hs : others[h].coa # Nil}
    OBVIOUS
  <1> QED BY <1>1 DEF SizeOf

LEMMA SizeOfLess ==
  ASSUME NEW rows, NEW all, all \subseteq Handles, NEW some, some \subseteq all
  PROVE  /\ SizeOf(rows, all) \in Nat /\ SizeOf(rows, some) \in Nat
         /\ SizeOf(rows, all \ some) = SizeOf(rows, all) - SizeOf(rows, some)
  <1> DEFINE Fat(hs) == {h \in hs : rows[h].coa # Nil}
  <1>1. /\ IsFiniteSet(all) /\ IsFiniteSet(Fat(all)) /\ IsFiniteSet(some) /\ IsFiniteSet(Fat(some))
        /\ Cardinality(all) \in Nat /\ Cardinality(Fat(all)) \in Nat
        /\ Cardinality(some) \in Nat /\ Cardinality(Fat(some)) \in Nat
    BY HandlesFinite
  <1>2. all \cap some = some /\ Fat(all) \cap Fat(some) = Fat(some)
        /\ Fat(all \ some) = Fat(all) \ Fat(some)
    OBVIOUS
  <1>3. Cardinality(all \ some) = Cardinality(all) - Cardinality(some)
    BY <1>1, <1>2, FS_Difference
  <1>4. Cardinality(Fat(all \ some)) = Cardinality(Fat(all)) - Cardinality(Fat(some))
    <2>1. ASSUME NEW A, NEW B, IsFiniteSet(A), IsFiniteSet(B), A \cap B = B
          PROVE  Cardinality(A \ B) = Cardinality(A) - Cardinality(B)
      BY <2>1, FS_Difference
    <2> HIDE DEF Fat
    <2> QED BY <1>1, <1>2, <2>1
  <1> QED BY <1>1, <1>3, <1>4 DEF SizeOf

LEMMA SizeOfOne ==
  ASSUME NEW rows, NEW hs, hs \subseteq Handles, NEW h \in Handles, h \notin hs
  PROVE  /\ SizeOf(rows, hs) \in Nat
         /\ SizeOf(rows, hs \cup {h}) = SizeOf(rows, hs) + Size(rows[h])
         /\ Cardinality(hs \cup {h}) = Cardinality(hs) + 1
  <1> DEFINE Fat(xs) == {x \in xs : rows[x].coa # Nil}
  <1>1. /\ IsFiniteSet(hs) /\ IsFiniteSet(Fat(hs))
        /\ Cardinality(hs) \in Nat /\ Cardinality(Fat(hs)) \in Nat
    BY HandlesFinite
  <1>2. Cardinality(hs \cup {h}) = Cardinality(hs) + 1
    BY <1>1, FS_AddElement
  <1>3. CASE rows[h].coa = Nil
    <2>1. Fat(hs \cup {h}) = Fat(hs)
      BY <1>3
    <2> QED BY <1>1, <1>2, <1>3, <2>1 DEF SizeOf, Size
  <1>4. CASE rows[h].coa # Nil
    <2>1. Fat(hs \cup {h}) = Fat(hs) \cup {h}
      BY <1>4
    <2>2. Cardinality(Fat(hs) \cup {h}) = Cardinality(Fat(hs)) + 1
      BY <1>1, FS_AddElement
    <2> QED BY <1>1, <1>2, <1>4, <2>1, <2>2 DEF SizeOf, Size
  <1> QED BY <1>3, <1>4

(* deleteKeyLocked, expireLocked: rows go with the keys that lead to them. *)
LEMMA RemoveSound ==
  ASSUME NEW rows, NEW keys, NEW n, Sound(rows, keys, n),
         NEW hs, hs \subseteq Rows(rows),
         NEW less, less = [h \in Handles |-> IF h \in hs THEN Nil ELSE rows[h]],
         NEW left \in [Keys -> Handles \cup {Nil}],
         \A k \in Keys : left[k] = IF keys[k] # Nil /\ keys[k] \in hs THEN Nil ELSE keys[k]
  PROVE  /\ Sound(less, left, n - SizeOf(rows, hs))
         /\ Rows(less) = Rows(rows) \ hs
  <1>0. /\ rows \in [Handles -> Row \cup {Nil}] /\ keys \in [Keys -> Handles \cup {Nil}]
        /\ Linked(rows, keys) /\ n = SizeOf(rows, Rows(rows))
        /\ Cardinality(Rows(rows)) <= MaxRows /\ Rows(rows) \subseteq Handles
    BY DEF Sound, Rows
  <1>1. less \in [Handles -> Row \cup {Nil}]
    BY <1>0
  <1>2. Rows(less) = Rows(rows) \ hs /\ \A h \in Rows(less) : less[h] = rows[h]
    BY DEF Rows
  <1>3. SizeOf(less, Rows(less)) = n - SizeOf(rows, hs)
    <2>1. SizeOf(less, Rows(less)) = SizeOf(rows, Rows(less))
      BY <1>2, SizeOfSame
    <2>2. SizeOf(rows, Rows(rows) \ hs) = SizeOf(rows, Rows(rows)) - SizeOf(rows, hs)
      <3> HIDE DEF Rows
      <3> QED BY <1>0, SizeOfLess
    <2> QED BY <1>0, <1>2, <2>1, <2>2
  <1>4. Cardinality(Rows(less)) <= MaxRows
    <2>1. IsFiniteSet(Rows(rows)) /\ Cardinality(Rows(rows)) \in Nat
      BY <1>0, HandlesFinite
    <2>2. Cardinality(Rows(less)) <= Cardinality(Rows(rows)) /\ Cardinality(Rows(less)) \in Nat
      BY <1>2, <2>1, FS_Subset, FS_CardinalityType
    <2> QED BY <1>0, <2>1, <2>2, IndexAssumption
  <1>5. Linked(less, left)
    <2>1. ASSUME NEW k \in Keys, left[k] # Nil
          PROVE  less[left[k]] # Nil /\ less[left[k]].key = k
      <3>1. left[k] = keys[k] /\ keys[k] \notin hs /\ keys[k] \in Handles
        BY <1>0, <2>1
      <3>2. rows[keys[k]] # Nil /\ rows[keys[k]].key = k
        BY <1>0, <2>1, <3>1 DEF Linked
      <3> QED BY <3>1, <3>2
    <2>2. ASSUME NEW h \in Rows(less)
          PROVE  left[less[h].key] = h
      <3>1. h \in Rows(rows) /\ h \notin hs /\ less[h] = rows[h] /\ rows[h] \in Row
        BY <1>0, <1>2 DEF Rows
      <3>2. keys[rows[h].key] = h /\ rows[h].key \in Keys
        BY <1>0, <3>1 DEF Linked, Row
      <3> QED BY <3>1, <3>2
    <2> QED BY <2>1, <2>2 DEF Linked
  <1> QED BY <1>1, <1>2, <1>3, <1>4, <1>5 DEF Sound

(* A row is replaced by another of its key.                                *)
LEMMA RefreshSound ==
  ASSUME NEW rows, NEW keys, NEW n, Sound(rows, keys, n),
         NEW h \in Rows(rows), NEW row \in Row, row.key = rows[h].key,
         NEW new \in [Handles -> Row \cup {Nil}], new[h] = row,
         \A x \in Handles : x # h => new[x] = rows[x]
  PROVE  /\ Sound(new, keys, n - Size(rows[h]) + Size(row))
         /\ Rows(new) = Rows(rows)
  <1> DEFINE rest == Rows(rows) \ {h}
  <1>0. /\ rows \in [Handles -> Row \cup {Nil}] /\ keys \in [Keys -> Handles \cup {Nil}]
        /\ Linked(rows, keys) /\ n = SizeOf(rows, Rows(rows))
        /\ Cardinality(Rows(rows)) <= MaxRows /\ Rows(rows) \subseteq Handles /\ row # Nil
    BY IndexAssumption DEF Sound, Rows
  <1>1. /\ new \in [Handles -> Row \cup {Nil}] /\ new[h] = row
        /\ \A x \in Handles : x # h => new[x] = rows[x]
    BY <1>0
  <1>2. Rows(new) = Rows(rows) /\ Rows(rows) = rest \cup {h} /\ h \notin rest /\ rest \subseteq Handles
        /\ h \in Handles
    BY <1>0, <1>1 DEF Rows
  <1>3. /\ SizeOf(rows, Rows(rows)) = SizeOf(rows, rest) + Size(rows[h])
        /\ SizeOf(new, Rows(rows)) = SizeOf(new, rest) + Size(row)
        /\ SizeOf(rows, rest) \in Nat
    <2> HIDE DEF rest
    <2>1. /\ SizeOf(rows, rest \cup {h}) = SizeOf(rows, rest) + Size(rows[h])
          /\ SizeOf(rows, rest) \in Nat
      BY <1>2, SizeOfOne
    <2>2. SizeOf(new, rest \cup {h}) = SizeOf(new, rest) + Size(new[h])
      BY <1>2, SizeOfOne
    <2> QED BY <1>1, <1>2, <2>1, <2>2
  <1>4. SizeOf(new, rest) = SizeOf(rows, rest)
    BY <1>1, <1>2, SizeOfSame
  <1>5. Size(rows[h]) \in Nat /\ Size(row) \in Nat
    BY DEF Size
  <1>6. SizeOf(new, Rows(new)) = n - Size(rows[h]) + Size(row)
    BY <1>0, <1>2, <1>3, <1>4, <1>5
  <1>7. \A x \in Handles : (new[x] = Nil <=> rows[x] = Nil) /\ (new[x] # Nil => new[x].key = rows[x].key)
    BY <1>0, <1>1, <1>2 DEF Rows
  <1>8. Linked(new, keys)
    BY <1>0, <1>2, <1>7 DEF Linked, Rows
  <1> QED BY <1>0, <1>1, <1>2, <1>6, <1>8 DEF Sound

(* A row is put under a handle that has none, and its key led nowhere.     *)
LEMMA AddSound ==
  ASSUME NEW rows, NEW keys, NEW n, Sound(rows, keys, n),
         NEW h \in Handles, rows[h] = Nil, NEW row \in Row, keys[row.key] = Nil,
         Cardinality(Rows(rows)) < MaxRows,
         NEW new \in [Handles -> Row \cup {Nil}], new[h] = row,
         \A x \in Handles : x # h => new[x] = rows[x],
         NEW more \in [Keys -> Handles \cup {Nil}], more[row.key] = h,
         \A k \in Keys : k # row.key => more[k] = keys[k]
  PROVE  /\ Sound(new, more, n + Size(row))
         /\ Rows(new) = Rows(rows) \cup {h}
  <1>0. /\ rows \in [Handles -> Row \cup {Nil}] /\ keys \in [Keys -> Handles \cup {Nil}]
        /\ Linked(rows, keys) /\ n = SizeOf(rows, Rows(rows))
        /\ Rows(rows) \subseteq Handles /\ row # Nil /\ row.key \in Keys
        /\ h \notin Rows(rows) /\ h # Nil
    BY IndexAssumption DEF Sound, Rows, Row, Handles
  <1>1. /\ new \in [Handles -> Row \cup {Nil}] /\ new[h] = row
        /\ \A x \in Handles : x # h => new[x] = rows[x]
    BY <1>0
  <1>2. /\ more \in [Keys -> Handles \cup {Nil}] /\ more[row.key] = h
        /\ \A k \in Keys : k # row.key => more[k] = keys[k]
    BY <1>0
  <1>3. Rows(new) = Rows(rows) \cup {h}
    BY <1>0, <1>1 DEF Rows
  <1>4. /\ SizeOf(new, Rows(new)) = n + Size(row)
        /\ Cardinality(Rows(new)) = Cardinality(Rows(rows)) + 1
    <2>1. SizeOf(new, Rows(rows)) = SizeOf(rows, Rows(rows))
      <3>1. \A x \in Rows(rows) : new[x] = rows[x]
        BY <1>0, <1>1
      <3> QED BY <3>1, SizeOfSame
    <2>2. /\ SizeOf(new, Rows(rows) \cup {h}) = SizeOf(new, Rows(rows)) + Size(new[h])
          /\ Cardinality(Rows(rows) \cup {h}) = Cardinality(Rows(rows)) + 1
      BY <1>0, SizeOfOne
    <2> QED BY <1>0, <1>1, <1>3, <2>1, <2>2
  <1>5. Cardinality(Rows(new)) <= MaxRows
    BY <1>0, <1>4, HandlesFinite, IndexAssumption
  <1>6. Linked(new, more)
    <2>1. ASSUME NEW k \in Keys, more[k] # Nil
          PROVE  new[more[k]] # Nil /\ new[more[k]].key = k
      <3>1. CASE k = row.key
        BY <1>0, <1>1, <1>2, <3>1
      <3>2. CASE k # row.key
        <4>1. keys[k] # Nil /\ more[k] = keys[k] /\ keys[k] \in Handles /\ rows[keys[k]] # Nil
              /\ rows[keys[k]].key = k
          BY <1>0, <1>2, <2>1, <3>2 DEF Linked
        <4> QED BY <1>1, <4>1
      <3> QED BY <3>1, <3>2
    <2>2. ASSUME NEW x \in Rows(new)
          PROVE  more[new[x].key] = x
      <3>1. CASE x = h
        BY <1>1, <1>2, <3>1
      <3>2. CASE x # h
        <4>1. x \in Rows(rows) /\ new[x] = rows[x] /\ rows[x] \in Row
          BY <1>0, <1>1, <1>3, <3>2 DEF Rows
        <4>2. keys[rows[x].key] = x /\ rows[x].key \in Keys /\ x # Nil
          BY <1>0, <4>1, IndexAssumption DEF Linked, Row, Handles
        <4> QED BY <1>2, <4>1, <4>2
      <3> QED BY <3>1, <3>2
    <2> QED BY <2>1, <2>2 DEF Linked
  <1> QED BY <1>1, <1>2, <1>3, <1>4, <1>5, <1>6 DEF Sound

-----------------------------------------------------------------------------
(* The session index: its methods.                                         *)

(* What a method may do to the tables: it leaves them sound, takes handles *)
(* that were never given out, and keeps the key of every row it leaves.    *)
MovesTables ==
  /\ Sound(byHandle', byKey', bytes')
  /\ used \subseteq used' /\ used' \subseteq Handles
  /\ \A h \in Rows(byHandle') :
       \/ h \in Rows(byHandle) /\ byHandle'[h].key = byHandle[h].key
       \/ h \in used' /\ h \notin used

(* What every method relies on.                                            *)
TablesOK ==
  /\ active \in Neighbours
  /\ used \subseteq Handles
  /\ Sound(byHandle, byKey, bytes)
  /\ Rows(byHandle) \subseteq used

(* expireLocked: what it leaves is sound and says what was there.          *)
LEMMA SweptSound ==
  ASSUME TablesOK
  PROVE  /\ Sound(Swept, SweptKeys, SweptBytes)
         /\ Rows(Swept) \subseteq Rows(byHandle)
         /\ \A h \in Rows(Swept) : Swept[h] = byHandle[h]
         /\ Swept \in [Handles -> Row \cup {Nil}]
         /\ SweptKeys \in [Keys -> Handles \cup {Nil}]
  <1> DEFINE hs == {h \in Rows(byHandle) : ~Fresh(h)}
  <1>0. byHandle \in [Handles -> Row \cup {Nil}] /\ byKey \in [Keys -> Handles \cup {Nil}]
        /\ Linked(byHandle, byKey)
    BY DEF TablesOK, Sound
  <1>1. Swept = [h \in Handles |-> IF h \in hs THEN Nil ELSE byHandle[h]]
    BY <1>0 DEF Swept, Fresh, Rows
  <1>2. SweptKeys \in [Keys -> Handles \cup {Nil}]
    BY <1>0 DEF SweptKeys
  <1>3. \A k \in Keys : SweptKeys[k] = IF byKey[k] # Nil /\ byKey[k] \in hs THEN Nil ELSE byKey[k]
    BY <1>0 DEF SweptKeys, Rows, Linked, Fresh
  <1>4. hs \subseteq Rows(byHandle)
    OBVIOUS
  <1>5. SweptBytes = bytes - SizeOf(byHandle, hs)
    BY DEF SweptBytes
  <1>6. Swept \in [Handles -> Row \cup {Nil}]
    BY <1>0, <1>1
  <1>7. Sound(Swept, SweptKeys, bytes - SizeOf(byHandle, hs)) /\ Rows(Swept) = Rows(byHandle) \ hs
    <2>1. Sound(byHandle, byKey, bytes)
      BY DEF TablesOK
    <2> HIDE DEF hs
    <2> QED BY <1>1, <1>2, <1>3, <1>4, <2>1, RemoveSound
  <1>8. \A h \in Rows(Swept) : Swept[h] = byHandle[h]
    BY <1>1 DEF Rows
  <1> QED BY <1>2, <1>5, <1>6, <1>7, <1>8

(* A method that only looks, or finds no room.                             *)
LEMMA LookupMoves ==
  ASSUME TablesOK, Lookup
  PROVE  MovesTables /\ Rows(byHandle') \subseteq Rows(byHandle)
  <1>1. byHandle' = Swept /\ byKey' = SweptKeys /\ bytes' = SweptBytes /\ used' = used
    BY DEF Lookup, Install
  <1> QED BY <1>1, SweptSound DEF MovesTables, TablesOK

(* A row of the swept table is refreshed: insertLocked on a known key,     *)
(* updateLocked, StoreLastCoA.                                             *)
LEMMA RefreshMoves ==
  ASSUME TablesOK, NEW k \in Keys, SweptKeys[k] # Nil,
         NEW row \in Row, row.key = k, NEW n,
         n = SweptBytes - Size(Swept[SweptKeys[k]]) + Size(row),
         Install([Swept EXCEPT ![SweptKeys[k]] = row], SweptKeys, n), UNCHANGED used
  PROVE  MovesTables /\ Rows(byHandle') \subseteq Rows(byHandle)
  <1>1. /\ Sound(Swept, SweptKeys, SweptBytes)
        /\ Rows(Swept) \subseteq Rows(byHandle) /\ \A h \in Rows(Swept) : Swept[h] = byHandle[h]
        /\ Swept \in [Handles -> Row \cup {Nil}] /\ SweptKeys \in [Keys -> Handles \cup {Nil}]
    BY SweptSound
  <1>2. PICK h \in Handles : h = SweptKeys[k]
    BY <1>1
  <1>3. h \in Rows(Swept) /\ Swept[h].key = k
    BY <1>1, <1>2 DEF Sound, Linked, Rows
  <1>4. byHandle' = [Swept EXCEPT ![h] = row] /\ byKey' = SweptKeys /\ bytes' = n /\ used' = used
    BY <1>2 DEF Install
  <1>5. /\ byHandle' \in [Handles -> Row \cup {Nil}] /\ byHandle'[h] = row
        /\ \A x \in Handles : x # h => byHandle'[x] = Swept[x]
    BY <1>1, <1>4
  <1>6. /\ Sound(byHandle', SweptKeys, SweptBytes - Size(Swept[h]) + Size(row))
        /\ Rows(byHandle') = Rows(Swept)
    BY <1>1, <1>3, <1>5, RefreshSound
  <1>7. Sound(byHandle', byKey', bytes') /\ Rows(byHandle') = Rows(Swept)
    BY <1>2, <1>6, <1>4
  <1>8. \A x \in Rows(Swept) : byHandle'[x].key = byHandle[x].key
    BY <1>1, <1>3, <1>4 DEF Rows
  <1> QED BY <1>1, <1>4, <1>7, <1>8 DEF MovesTables, TablesOK

(* insertLocked.                                                           *)
LEMMA InsertMoves ==
  ASSUME TablesOK, NEW k \in Keys, NEW u \in Names, NEW n \in Nas, Insert(k, u, n)
  PROVE  MovesTables
  <1> DEFINE h == SweptKeys[k]
             row == Fill(k, u, n, IF h = Nil THEN Nil ELSE Swept[h])
  <1>1. /\ Sound(Swept, SweptKeys, SweptBytes)
        /\ Rows(Swept) \subseteq Rows(byHandle) /\ \A x \in Rows(Swept) : Swept[x] = byHandle[x]
        /\ Swept \in [Handles -> Row \cup {Nil}] /\ SweptKeys \in [Keys -> Handles \cup {Nil}]
    BY SweptSound
  <1>2. h # Nil => Swept[h] \in Row
    BY <1>1 DEF Sound, Linked
  <1>3. row \in Row /\ row.key = k /\ row.coa = IF h = Nil THEN Nil ELSE Swept[h].coa
    <2>1. CASE h = Nil
      BY <2>1 DEF Fill, Row
    <2>2. CASE h # Nil
      BY <1>2, <2>2, IndexAssumption DEF Fill, Row
    <2> QED BY <2>1, <2>2
  <1>4. CASE h # Nil
    <2>1. Install([Swept EXCEPT ![h] = row], SweptKeys, SweptBytes) /\ UNCHANGED used
      BY <1>4 DEF Insert
    <2>2. SweptBytes \in Int /\ Size(row) = Size(Swept[h]) /\ Size(row) \in Int
      <3>1. SweptBytes \in Nat
        <4>1. Rows(Swept) \subseteq Handles /\ SweptBytes = SizeOf(Swept, Rows(Swept))
          BY <1>1 DEF Sound, Rows
        <4> QED BY <4>1, SizeOfLess
      <3> QED BY <1>3, <1>4, <3>1 DEF Size
    <2> HIDE DEF row
    <2>3. SweptBytes = SweptBytes - Size(Swept[SweptKeys[k]]) + Size(row)
      BY <2>2
    <2> QED BY <1>3, <1>4, <2>1, <2>3, RefreshMoves
  <1>5. CASE h = Nil /\ (Cardinality(Rows(Swept)) >= MaxRows \/ SweptBytes + Size(row) > MaxBytes)
    BY <1>5, LookupMoves DEF Insert
  <1>6. CASE h = Nil /\ ~(Cardinality(Rows(Swept)) >= MaxRows \/ SweptBytes + Size(row) > MaxBytes)
    <2>1. PICK new \in 1..active.handles \ used :
            /\ Install([Swept EXCEPT ![new] = row], [SweptKeys EXCEPT ![k] = new],
                       SweptBytes + Size(row))
            /\ used' = used \cup {new}
      BY <1>6 DEF Insert
    <2> HIDE DEF row
    <2>2. new \in Handles /\ Swept[new] = Nil
      BY <1>1, IndexAssumption DEF TablesOK, Handles, Rows
    <2>3. Cardinality(Rows(Swept)) < MaxRows
      <3>1. Rows(Swept) \subseteq Handles
        BY DEF Rows
      <3>2. Cardinality(Rows(Swept)) \in Nat
        BY <3>1, HandlesFinite
      <3> QED BY <1>6, <3>2, IndexAssumption
    <2>4. /\ byHandle' \in [Handles -> Row \cup {Nil}] /\ byHandle'[new] = row
          /\ \A x \in Handles : x # new => byHandle'[x] = Swept[x]
          /\ byKey' \in [Keys -> Handles \cup {Nil}] /\ byKey'[row.key] = new
          /\ \A x \in Keys : x # row.key => byKey'[x] = SweptKeys[x]
          /\ bytes' = SweptBytes + Size(row)
      BY <1>1, <1>3, <2>1, <2>2 DEF Install
    <2>5. Sound(byHandle', byKey', bytes') /\ Rows(byHandle') = Rows(Swept) \cup {new}
      BY <1>1, <1>3, <1>6, <2>2, <2>3, <2>4, AddSound
    <2>6. \A x \in Rows(Swept) : x = new \/ byHandle'[x].key = byHandle[x].key
      BY <1>1, <2>1 DEF Install, Rows
    <2> QED BY <1>1, <2>1, <2>2, <2>5, <2>6 DEF MovesTables, TablesOK
  <1> QED BY <1>4, <1>5, <1>6

(* updateLocked.                                                           *)
LEMMA UpdateMoves ==
  ASSUME TablesOK, NEW k \in Keys, NEW u \in Names, NEW n \in Nas, Update(k, u, n)
  PROVE  MovesTables
  <1> DEFINE h == SweptKeys[k]
             row == [Swept[h] EXCEPT !.user = u, !.nas = n]
  <1>1. /\ Sound(Swept, SweptKeys, SweptBytes)
        /\ Swept \in [Handles -> Row \cup {Nil}] /\ SweptKeys \in [Keys -> Handles \cup {Nil}]
    BY SweptSound
  <1>2. CASE h = Nil
    BY <1>2, LookupMoves DEF Update
  <1>3. CASE h # Nil
    <2>1. h \in Handles /\ Swept[h] \in Row /\ Swept[h].key = k
      BY <1>1, <1>3 DEF Sound, Linked
    <2>2. row \in Row /\ row.key = k /\ row.coa = Swept[h].coa
      BY <2>1 DEF Row
    <2>3. [Swept EXCEPT ![h].user = u, ![h].nas = n] = [Swept EXCEPT ![h] = row]
      BY <1>1, <2>1
    <2>4. Install([Swept EXCEPT ![h] = row], SweptKeys, SweptBytes) /\ UNCHANGED used
      BY <1>3, <2>3 DEF Update
    <2>5. SweptBytes \in Nat /\ Size(row) = Size(Swept[h]) /\ Size(row) \in Nat
      <3>1. Rows(Swept) \subseteq Handles /\ SweptBytes = SizeOf(Swept, Rows(Swept))
        BY <1>1 DEF Sound, Rows
      <3> QED BY <2>2, <3>1, SizeOfLess DEF Size
    <2> HIDE DEF row
    <2>6. SweptBytes = SweptBytes - Size(Swept[SweptKeys[k]]) + Size(row)
      BY <2>5
    <2> QED BY <1>3, <2>2, <2>4, <2>6, RefreshMoves
  <1> QED BY <1>2, <1>3

(* deleteKeyLocked: what the keys lead to is gone, and nothing else.       *)
LEMMA DeleteMoves ==
  ASSUME TablesOK, NEW ks, ks \subseteq Keys, DeleteKeys(ks)
  PROVE  /\ MovesTables
         /\ Rows(byHandle') \subseteq Rows(byHandle)
         /\ \A h \in Rows(byHandle') : byHandle[h].key \notin ks
  <1> DEFINE hs == {SweptKeys[k] : k \in {x \in ks : SweptKeys[x] # Nil}}
             less == [h \in Handles |-> IF h \in hs THEN Nil ELSE Swept[h]]
             left == [k \in Keys |-> IF k \in ks THEN Nil ELSE SweptKeys[k]]
  <1>1. /\ Sound(Swept, SweptKeys, SweptBytes)
        /\ Rows(Swept) \subseteq Rows(byHandle) /\ \A h \in Rows(Swept) : Swept[h] = byHandle[h]
        /\ Swept \in [Handles -> Row \cup {Nil}] /\ SweptKeys \in [Keys -> Handles \cup {Nil}]
        /\ Linked(Swept, SweptKeys)
    BY SweptSound DEF Sound
  <1>2. hs \subseteq Rows(Swept)
    BY <1>1 DEF Rows, Linked
  <1>3. left \in [Keys -> Handles \cup {Nil}]
    BY <1>1
  <1>4. \A k \in Keys : left[k] = IF SweptKeys[k] # Nil /\ SweptKeys[k] \in hs THEN Nil ELSE SweptKeys[k]
    <2>1. \A k \in ks : SweptKeys[k] # Nil => SweptKeys[k] \in hs
      OBVIOUS
    <2>2. \A k \in Keys : SweptKeys[k] # Nil /\ SweptKeys[k] \in hs => k \in ks
      BY <1>1 DEF Linked
    <2> QED BY <2>1, <2>2
  <1>5. /\ byHandle' = less /\ byKey' = left /\ bytes' = SweptBytes - SizeOf(Swept, hs)
        /\ used' = used
    BY DEF DeleteKeys, Install
  <1>6. Sound(less, left, SweptBytes - SizeOf(Swept, hs)) /\ Rows(less) = Rows(Swept) \ hs
    <2>1. less = [h \in Handles |-> IF h \in hs THEN Nil ELSE Swept[h]]
      OBVIOUS
    <2> HIDE DEF hs, less, left
    <2> QED BY <1>1, <1>2, <1>3, <1>4, <2>1, RemoveSound
  <1>7. \A h \in Rows(less) : less[h] = Swept[h]
    BY <1>6 DEF Rows
  <1>8. \A h \in Rows(Swept) : Swept[h].key \in ks => h \in hs
    BY <1>1, IndexAssumption DEF Linked, Rows, Handles
  <1> HIDE DEF hs, less, left
  <1>9. MovesTables /\ Rows(byHandle') \subseteq Rows(byHandle)
    BY <1>1, <1>5, <1>6, <1>7 DEF MovesTables, TablesOK
  <1> QED BY <1>1, <1>5, <1>6, <1>8, <1>9

-----------------------------------------------------------------------------
(* The session index: the inductive invariant.                             *)

Found == [pc : {"found"}, code : {"coa", "disconnect"}, row : Row, found : Handles]
Originated ==
  [pc : {"idle", "send", "sign", "wait", "end"}, target : Handles \cup {0},
   wire : Wires \cup {0}, outcome : {"none", "ack", "nak", "timeout"}]

SiTypeOK ==
  /\ gone \subseteq used
  /\ das \in [Handlers -> {NoRequest} \cup Found]
  /\ dac \in [Senders -> Originated]
  /\ cache \in [Handles -> Wires \cup {Nil}]
  /\ network \in [sent : SUBSET Wires, replies : SUBSET [wire : Wires, ack : BOOLEAN],
                  done : SUBSET Wires]

(* The copy a handler works with still has the key of its handle's row:    *)
(* a handle is never given to another session.                             *)
CopiesAgree ==
  \A d \in Handlers : das[d].pc = "found" =>
    /\ das[d].found \in used
    /\ byHandle[das[d].found] # Nil => byHandle[das[d].found].key = das[d].row.key

(* A request has an outcome at its end only, and the NAS did what it       *)
(* acknowledged.                                                           *)
OutcomesLast ==
  \A s \in Senders : /\ dac[s].outcome # "none" => dac[s].pc = "end"
                     /\ dac[s].pc \in {"send", "sign"} => dac[s].target \in Handles
RepliesTrue == \A r \in network.replies : r.ack => r.wire \in network.done

SiInv == TablesOK /\ SiTypeOK /\ CopiesAgree /\ OutcomesLast /\ RepliesTrue /\ AckIsTrue

(* The sizes of no rows add up to nothing.                                 *)
LEMMA NoRowsSound == Sound([h \in Handles |-> Nil], [k \in Keys |-> Nil], 0)
  <1> DEFINE rows == [h \in Handles |-> Nil]
             keys == [k \in Keys |-> Nil]
  <1>1. Rows(rows) = {}
    BY DEF Rows
  <1>2. SizeOf(rows, {}) = 0 /\ Cardinality({}) = 0
    <2>1. {h \in {} : rows[h].coa # Nil} = {}
      OBVIOUS
    <2> QED BY <2>1, FS_EmptySet DEF SizeOf
  <1>3. Linked(rows, keys)
    BY <1>1 DEF Linked
  <1> HIDE DEF rows, keys
  <1>4. Cardinality(Rows(rows)) <= MaxRows /\ SizeOf(rows, Rows(rows)) = 0
    BY <1>1, <1>2, IndexAssumption
  <1> QED BY <1>3, <1>4 DEF Sound, rows, keys

LEMMA SiInitial == SiInit => SiInv
  <1> SUFFICES ASSUME SiInit PROVE SiInv
    OBVIOUS
  <1>1. TablesOK
    BY NoRowsSound DEF SiInit, TablesOK, Rows
  <1>2. SiTypeOK
    BY DEF SiInit, SiTypeOK, Originated, Free
  <1>3. CopiesAgree /\ OutcomesLast /\ RepliesTrue /\ AckIsTrue
    BY DEF SiInit, CopiesAgree, OutcomesLast, RepliesTrue, AckIsTrue, Free, NoRequest
  <1> QED BY <1>1, <1>2, <1>3 DEF SiInv

(* Whatever a method does to the tables, acknowledged sessions stay away   *)
(* and copies keep their keys.                                             *)
LEMMA MoveKeeps ==
  ASSUME SiInv, MovesTables, active' = active
  PROVE  /\ TablesOK'
         /\ gone \subseteq used'
         /\ \A h \in gone : byHandle'[h] = Nil
         /\ \A d \in Handlers : das[d].pc = "found" =>
              /\ das[d].found \in used'
              /\ byHandle'[das[d].found] # Nil => byHandle'[das[d].found].key = das[d].row.key
  <1>0. /\ active \in Neighbours /\ used \subseteq Handles /\ Rows(byHandle) \subseteq used
        /\ gone \subseteq used /\ das \in [Handlers -> {NoRequest} \cup Found]
    BY DEF SiInv, TablesOK, SiTypeOK
  <1>1. TablesOK'
    BY <1>0 DEF MovesTables, TablesOK
  <1>2. \A h \in gone : byHandle'[h] = Nil
    BY <1>0 DEF SiInv, AckIsTrue, MovesTables, Rows
  <1>3. ASSUME NEW d \in Handlers, das[d].pc = "found"
        PROVE  /\ das[d].found \in used'
               /\ byHandle'[das[d].found] # Nil => byHandle'[das[d].found].key = das[d].row.key
    <2>1. das[d].found \in used
          /\ (byHandle[das[d].found] # Nil => byHandle[das[d].found].key = das[d].row.key)
      BY <1>3 DEF SiInv, CopiesAgree
    <2>2. das[d].found \in Handles
      BY <1>0, <2>1
    <2> QED BY <1>0, <2>1, <2>2 DEF MovesTables, Rows
  <1> QED BY <1>0, <1>1, <1>2, <1>3 DEF MovesTables

(* A method called for its effect on the tables alone.                     *)
LEMMA MoveSteps ==
  ASSUME SiInv, MovesTables, UNCHANGED <<active, das, gone, dac, cache, network>>
  PROVE  SiInv'
  <1>1. TablesOK' /\ SiTypeOK'
    BY MoveKeeps DEF SiInv, SiTypeOK
  <1>2. CopiesAgree' /\ OutcomesLast' /\ RepliesTrue' /\ AckIsTrue'
    BY MoveKeeps DEF SiInv, CopiesAgree, OutcomesLast, RepliesTrue, AckIsTrue
  <1> QED BY <1>1, <1>2 DEF SiInv

LEMMA ApplySteps ==
  ASSUME SiInv, active' = active,
         NEW kind \in active.kinds \cap {"start", "interim", "stop", "on"},
         NEW k \in Keys, NEW u \in Names, NEW n \in active.nas, Apply(kind, k, u, n)
  PROVE  SiInv'
  <1>0. TablesOK /\ n \in Nas
    BY IndexAssumption DEF SiInv, TablesOK
  <1>1. CASE kind = "start"
    BY <1>0, <1>1, InsertMoves, MoveSteps DEF Apply
  <1>2. CASE kind = "interim"
    BY <1>0, <1>2, UpdateMoves, MoveSteps DEF Apply
  <1>3. CASE kind = "stop"
    <2>1. {k} \subseteq Keys /\ DeleteKeys({k})
      BY <1>3 DEF Apply
    <2>2. MovesTables
      BY <1>0, <2>1, DeleteMoves
    <2> QED BY <2>2, MoveSteps DEF Apply
  <1>4. CASE kind = "on"
    <2>1. Flushed(k[1], n) \subseteq Keys
      BY DEF Flushed
    <2>2. DeleteKeys(Flushed(k[1], n))
      BY <1>4 DEF Apply
    <2>3. MovesTables
      BY <1>0, <2>1, <2>2, DeleteMoves
    <2> QED BY <2>3, MoveSteps DEF Apply
  <1> QED BY <1>1, <1>2, <1>3, <1>4

LEMMA ResetSteps ==
  ASSUME SiInv, active' = active, Reset
  PROVE  SiInv'
  <1>1. Rows([h \in Handles |-> Nil]) = {}
    BY DEF Rows
  <1>2. MovesTables
    BY <1>1, NoRowsSound DEF Reset, Install, MovesTables, SiInv, TablesOK
  <1> QED BY <1>2, MoveSteps DEF Reset

(* A row that is due counts as much as before.                             *)
LEMMA DueSteps ==
  ASSUME SiInv, active' = active, NEW h \in Handles, Due(h)
  PROVE  SiInv'
  <1> DEFINE row == [byHandle[h] EXCEPT !.due = TRUE]
  <1>1. Sound(byHandle, byKey, bytes) /\ byHandle \in [Handles -> Row \cup {Nil}]
        /\ h \in Rows(byHandle) /\ byHandle[h] \in Row
    BY DEF SiInv, TablesOK, Sound, Due, Fresh, Rows
  <1>2. row \in Row /\ row.key = byHandle[h].key /\ row.coa = byHandle[h].coa
    BY <1>1 DEF Row
  <1>3. byHandle' = [byHandle EXCEPT ![h] = row]
    BY <1>1 DEF Due
  <1>4. /\ byHandle' \in [Handles -> Row \cup {Nil}] /\ byHandle'[h] = row
        /\ \A x \in Handles : x # h => byHandle'[x] = byHandle[x]
    BY <1>1, <1>2, <1>3
  <1>5. bytes \in Nat /\ Size(byHandle[h]) \in Nat /\ Size(row) = Size(byHandle[h])
    <2>1. Rows(byHandle) \subseteq Handles /\ bytes = SizeOf(byHandle, Rows(byHandle))
      BY <1>1 DEF Sound, Rows
    <2> QED BY <1>2, <2>1, SizeOfLess DEF Size
  <1> HIDE DEF row
  <1>6. Sound(byHandle', byKey, bytes - Size(byHandle[h]) + Size(row))
        /\ Rows(byHandle') = Rows(byHandle)
    BY <1>1, <1>2, <1>4, RefreshSound
  <1>7. bytes - Size(byHandle[h]) + Size(row) = bytes
    BY <1>5
  <1>8. MovesTables
    BY <1>1, <1>2, <1>4, <1>6, <1>7 DEF MovesTables, Due, SiInv, TablesOK, Rows
  <1> QED BY <1>8, MoveSteps DEF Due

(* A handler looks a session up and keeps a copy of its row.               *)
LEMMA FindSteps ==
  ASSUME SiInv, active' = active, NEW d \in Handlers, NEW code \in {"coa", "disconnect"},
         NEW q \in Queries, Find(d, code, q)
  PROVE  SiInv'
  <1>0. TablesOK /\ das \in [Handlers -> {NoRequest} \cup Found] /\ Lookup
    BY DEF SiInv, SiTypeOK, Find
  <1>1. MovesTables
    BY <1>0, LookupMoves
  <1>2. PICK h \in Hits(q) :
          das' = [das EXCEPT ![d] = [pc |-> "found", code |-> code, row |-> Swept[h], found |-> h]]
    BY DEF Find
  <1>3. h \in Rows(Swept) /\ h \in Handles /\ Swept[h] \in Row
    BY <1>0, SweptSound DEF Hits, Rows
  <1>4. das' \in [Handlers -> {NoRequest} \cup Found]
    BY <1>0, <1>2, <1>3 DEF Found
  <1>5. /\ das'[d].found = h /\ das'[d].row = Swept[h]
        /\ \A x \in Handlers : x # d => das'[x] = das[x]
    BY <1>0, <1>2
  <1>6. byHandle' = Swept /\ used' = used /\ h \in used
    BY <1>0, <1>3, SweptSound DEF Lookup, Install, TablesOK
  <1>7. CopiesAgree'
    BY <1>1, <1>5, <1>6, MoveKeeps DEF CopiesAgree
  <1>8. TablesOK' /\ SiTypeOK'
    BY <1>1, <1>4, MoveKeeps DEF SiInv, SiTypeOK, Find
  <1>9. OutcomesLast' /\ RepliesTrue' /\ AckIsTrue'
    BY <1>1, MoveKeeps DEF SiInv, OutcomesLast, RepliesTrue, AckIsTrue, Find
  <1> QED BY <1>7, <1>8, <1>9 DEF SiInv

LEMMA FindNoneSteps ==
  ASSUME SiInv, active' = active, NEW d \in Handlers, NEW q \in Queries, FindNone(d, q)
  PROVE  SiInv'
  BY LookupMoves, MoveSteps DEF FindNone, SiInv

(* A request in progress ends with an answer, whatever it did to the index.*)
LEMMA AnswerSteps ==
  ASSUME SiInv, active' = active, MovesTables, NEW d \in Handlers,
         das' = [das EXCEPT ![d] = NoRequest],
         gone' \subseteq used', \A h \in gone' : byHandle'[h] = Nil,
         UNCHANGED <<dac, cache, network>>
  PROVE  SiInv'
  <1>1. das \in [Handlers -> {NoRequest} \cup Found]
    BY DEF SiInv, SiTypeOK
  <1>2. /\ das' \in [Handlers -> {NoRequest} \cup Found] /\ das'[d].pc # "found"
        /\ \A x \in Handlers : x # d => das'[x] = das[x]
    BY <1>1 DEF NoRequest
  <1>3. TablesOK' /\ SiTypeOK'
    BY <1>2, MoveKeeps DEF SiInv, SiTypeOK
  <1>4. CopiesAgree'
    BY <1>2, MoveKeeps DEF CopiesAgree
  <1>5. OutcomesLast' /\ RepliesTrue' /\ AckIsTrue'
    BY DEF SiInv, OutcomesLast, RepliesTrue, AckIsTrue
  <1> QED BY <1>3, <1>4, <1>5 DEF SiInv

(* The row the copy was made of is gone, or has the key that is deleted.   *)
LEMMA DisconnectSteps ==
  ASSUME SiInv, active' = active, NEW d \in Handlers, Disconnect(d)
  PROVE  SiInv'
  <1>0. /\ TablesOK /\ das \in [Handlers -> {NoRequest} \cup Found] /\ das[d].pc = "found"
        /\ DeleteKeys({das[d].row.key}) /\ gone \subseteq used
    BY DEF SiInv, SiTypeOK, Disconnect, Disconnects
  <1>1. das[d] \in Found
    BY <1>0 DEF NoRequest
  <1>2. {das[d].row.key} \subseteq Keys /\ das[d].found \in Handles
    BY <1>1 DEF Found, Row
  <1>3. /\ MovesTables /\ Rows(byHandle') \subseteq Rows(byHandle)
        /\ \A h \in Rows(byHandle') : byHandle[h].key # das[d].row.key
    BY <1>0, <1>2, DeleteMoves
  <1>4. das[d].found \in used
        /\ (byHandle[das[d].found] # Nil => byHandle[das[d].found].key = das[d].row.key)
    BY <1>0 DEF SiInv, CopiesAgree
  <1>5. byHandle'[das[d].found] = Nil
    BY <1>2, <1>3, <1>4 DEF Rows
  <1>6. gone' = gone \cup {das[d].found} /\ das' = [das EXCEPT ![d] = NoRequest]
    BY DEF Disconnect
  <1>7. gone' \subseteq used' /\ \A h \in gone' : byHandle'[h] = Nil
    BY <1>3, <1>4, <1>5, <1>6, MoveKeeps DEF MovesTables
  <1> QED BY <1>3, <1>6, <1>7, AnswerSteps DEF Disconnect

LEMMA StoreSteps ==
  ASSUME SiInv, active' = active, NEW d \in Handlers, StoreLastCoA(d)
  PROVE  SiInv'
  <1> DEFINE k == das[d].row.key
             h == SweptKeys[k]
             row == [Swept[h] EXCEPT !.coa = "attrs"]
  <1>0. /\ TablesOK /\ das \in [Handlers -> {NoRequest} \cup Found] /\ das[d].pc = "found"
        /\ gone' = gone /\ das' = [das EXCEPT ![d] = NoRequest]
    BY DEF SiInv, SiTypeOK, StoreLastCoA
  <1>1. das[d] \in Found
    BY <1>0 DEF NoRequest
  <1>2. k \in Keys
    BY <1>1 DEF Found, Row
  <1>3. /\ Sound(Swept, SweptKeys, SweptBytes)
        /\ Swept \in [Handles -> Row \cup {Nil}] /\ SweptKeys \in [Keys -> Handles \cup {Nil}]
    BY <1>0, SweptSound
  <1>4. ASSUME h = Nil PROVE MovesTables
    BY <1>0, <1>4, LookupMoves DEF StoreLastCoA
  <1>5. ASSUME h # Nil PROVE MovesTables
    <2>1. h \in Handles /\ Swept[h] \in Row /\ Swept[h].key = k
      BY <1>2, <1>3, <1>5 DEF Sound, Linked
    <2>2. row \in Row /\ row.key = k /\ Size(row) = 2
      BY <2>1, IndexAssumption DEF Row, Size
    <2>3. [Swept EXCEPT ![h].coa = "attrs"] = [Swept EXCEPT ![h] = row]
      BY <1>3, <2>1
    <2>4. Install([Swept EXCEPT ![h] = row], SweptKeys, SweptBytes - Size(Swept[h]) + Size(row))
          /\ UNCHANGED used
      BY <1>5, <2>2, <2>3 DEF StoreLastCoA
    <2> HIDE DEF row, k
    <2> QED BY <1>0, <1>2, <1>5, <2>2, <2>4, RefreshMoves
  <1>6. MovesTables
    BY <1>4, <1>5
  <1>7. gone' \subseteq used' /\ \A x \in gone' : byHandle'[x] = Nil
    BY <1>0, <1>6, MoveKeeps
  <1> QED BY <1>0, <1>6, <1>7, AnswerSteps DEF StoreLastCoA

LEMMA ListSteps ==
  ASSUME SiInv, active' = active, ListPage
  PROVE  SiInv'
  BY LookupMoves, MoveSteps DEF ListPage, SiInv

(* The originator touches the index through Target only.                   *)
LEMMA SenderSteps ==
  ASSUME SiInv, active' = active, UNCHANGED indexVars, UNCHANGED <<das, gone>>,
         dac' \in [Senders -> Originated], cache' \in [Handles -> Wires \cup {Nil}],
         network' \in [sent : SUBSET Wires, replies : SUBSET [wire : Wires, ack : BOOLEAN],
                       done : SUBSET Wires],
         OutcomesLast', RepliesTrue',
         \A s \in Senders : dac'[s].outcome = "ack" => dac'[s].wire \in network'.done
  PROVE  SiInv'
  <1>1. TablesOK' /\ SiTypeOK'
    BY DEF SiInv, TablesOK, SiTypeOK, indexVars, Rows
  <1>2. CopiesAgree' /\ AckIsTrue'
    BY DEF SiInv, CopiesAgree, AckIsTrue, indexVars
  <1> QED BY <1>1, <1>2 DEF SiInv

LEMMA TargetSteps ==
  ASSUME SiInv, active' = active, NEW s \in Senders, NEW h \in Handles, Target(s, h)
  PROVE  SiInv'
  <1>0. /\ TablesOK /\ dac \in [Senders -> Originated] /\ Lookup
        /\ dac' = [dac EXCEPT ![s] = [Free EXCEPT !.pc = "send", !.target = h]]
    BY DEF SiInv, SiTypeOK, Target
  <1>1. MovesTables
    BY <1>0, LookupMoves
  <1>2. dac' \in [Senders -> Originated]
    BY <1>0 DEF Originated, Free
  <1>3. /\ dac'[s].outcome = "none" /\ dac'[s].target \in Handles
        /\ \A x \in Senders : x # s => dac'[x] = dac[x]
    BY <1>0 DEF Free
  <1>4. TablesOK' /\ SiTypeOK'
    BY <1>1, <1>2, MoveKeeps DEF SiInv, SiTypeOK, Target
  <1>5. CopiesAgree'
    BY <1>1, MoveKeeps DEF CopiesAgree, Target
  <1>6. OutcomesLast' /\ RepliesTrue'
    BY <1>3 DEF SiInv, OutcomesLast, RepliesTrue, Target
  <1>7. AckIsTrue'
    BY <1>1, <1>3, MoveKeeps DEF SiInv, AckIsTrue, Target
  <1> QED BY <1>4, <1>5, <1>6, <1>7 DEF SiInv

(* Send: a request goes out; nobody was told its outcome yet.              *)
LEMMA CachedSteps ==
  ASSUME SiInv, active' = active, NEW s \in Senders, Cached(s)
  PROVE  SiInv'
  <1>0. /\ dac \in [Senders -> Originated] /\ cache \in [Handles -> Wires \cup {Nil}]
        /\ network \in [sent : SUBSET Wires, replies : SUBSET [wire : Wires, ack : BOOLEAN],
                        done : SUBSET Wires]
        /\ dac[s].pc = "send" /\ dac[s].target \in Handles /\ dac[s].outcome = "none"
    BY DEF SiInv, SiTypeOK, OutcomesLast, Cached
  <1>1. PICK wire \in Wires \cup {Nil} : wire = cache[dac[s].target]
    BY <1>0
  <1>2. /\ dac' \in [Senders -> Originated]
        /\ dac'[s].outcome = "none" /\ dac'[s].target \in Handles
        /\ \A x \in Senders : x # s => dac'[x] = dac[x]
    BY <1>0, <1>1 DEF Cached, Originated
  <1>3. /\ network' \in [sent : SUBSET Wires, replies : SUBSET [wire : Wires, ack : BOOLEAN],
                         done : SUBSET Wires]
        /\ network'.replies = network.replies /\ network'.done = network.done
    BY <1>0, <1>1 DEF Cached
  <1>4. OutcomesLast' /\ RepliesTrue'
    BY <1>2, <1>3 DEF SiInv, OutcomesLast, RepliesTrue
  <1>5. \A x \in Senders : dac'[x].outcome = "ack" => dac'[x].wire \in network'.done
    BY <1>2, <1>3 DEF SiInv, AckIsTrue
  <1> QED BY <1>0, <1>2, <1>3, <1>4, <1>5, SenderSteps DEF Cached, indexVars

LEMMA SignSteps ==
  ASSUME SiInv, active' = active, NEW s \in Senders, NEW id \in {0, 1}, Sign(s, id)
  PROVE  SiInv'
  <1>0. /\ dac \in [Senders -> Originated] /\ cache \in [Handles -> Wires \cup {Nil}]
        /\ network \in [sent : SUBSET Wires, replies : SUBSET [wire : Wires, ack : BOOLEAN],
                        done : SUBSET Wires]
        /\ dac[s].pc = "sign" /\ dac[s].target \in Handles /\ dac[s].outcome = "none"
    BY DEF SiInv, SiTypeOK, OutcomesLast, Sign
  <1>1. PICK wire \in Wires : wire = Len(wires) + 1
    BY DEF Sign
  <1>2. /\ dac' = [dac EXCEPT ![s].pc = "wait", ![s].wire = wire]
        /\ network' = [network EXCEPT !.sent = @ \cup {wire}]
        /\ cache' = cache \/ cache' = [cache EXCEPT ![dac[s].target] = wire]
    BY <1>1 DEF Sign
  <1>3. /\ dac' \in [Senders -> Originated]
        /\ dac'[s].outcome = "none" /\ dac'[s].target \in Handles
        /\ \A x \in Senders : x # s => dac'[x] = dac[x]
    <2>1. dac'[s] = [dac[s] EXCEPT !.pc = "wait", !.wire = wire]
          /\ \A x \in Senders : x # s => dac'[x] = dac[x]
      BY <1>0, <1>2
    <2>2. [dac[s] EXCEPT !.pc = "wait", !.wire = wire] \in Originated
      BY <1>0 DEF Originated
    <2>3. dac' \in [Senders -> Originated]
      BY <1>0, <1>2, <2>1, <2>2
    <2>4. dac'[s].outcome = dac[s].outcome /\ dac'[s].target = dac[s].target
      BY <1>0, <2>1 DEF Originated
    <2> QED BY <1>0, <2>1, <2>3, <2>4
  <1>4. /\ network' \in [sent : SUBSET Wires, replies : SUBSET [wire : Wires, ack : BOOLEAN],
                         done : SUBSET Wires]
        /\ network'.replies = network.replies /\ network'.done = network.done
        /\ cache' \in [Handles -> Wires \cup {Nil}]
    BY <1>0, <1>2
  <1>5. OutcomesLast' /\ RepliesTrue'
    BY <1>3, <1>4 DEF SiInv, OutcomesLast, RepliesTrue
  <1>6. \A x \in Senders : dac'[x].outcome = "ack" => dac'[x].wire \in network'.done
    BY <1>3, <1>4 DEF SiInv, AckIsTrue
  <1> QED BY <1>3, <1>4, <1>5, <1>6, SenderSteps DEF Sign, indexVars

(* exchange ends with an outcome: an ACK only for the request the NAS      *)
(* acknowledged.                                                           *)
LEMMA OutcomeSteps ==
  ASSUME SiInv, active' = active, NEW s \in Senders,
         (\E r \in network.replies : Receive(s, r)) \/ Timeout(s) \/ Respond(s)
  PROVE  SiInv'
  <1>0. /\ dac \in [Senders -> Originated] /\ UNCHANGED <<das, gone, cache, network>>
        /\ UNCHANGED indexVars
    BY DEF SiInv, SiTypeOK, Receive, Timeout, Respond, indexVars
  <1>1. /\ dac' \in [Senders -> Originated]
        /\ dac'[s].outcome = "none" \/ dac'[s].pc = "end"
        /\ dac'[s].pc \notin {"send", "sign"}
        /\ dac'[s].outcome = "ack" => dac'[s].wire \in network.done
        /\ \A x \in Senders : x # s => dac'[x] = dac[x]
    <2>1. ASSUME NEW r \in network.replies, Receive(s, r)
          PROVE  /\ dac' \in [Senders -> Originated] /\ dac'[s].pc = "end"
                 /\ dac'[s].outcome = "ack" => dac'[s].wire \in network.done
                 /\ \A x \in Senders : x # s => dac'[x] = dac[x]
      <3>1. /\ dac' = [dac EXCEPT ![s].pc = "end", ![s].outcome = IF r.ack THEN "ack" ELSE "nak"]
            /\ r.wire = dac[s].wire /\ (r.ack => r.wire \in network.done)
        BY <2>1 DEF Receive, Answers, SiInv, RepliesTrue
      <3> QED BY <1>0, <3>1 DEF Originated
    <2>2. CASE Timeout(s)
      BY <1>0, <2>2 DEF Timeout, Originated
    <2>3. CASE Respond(s)
      BY <1>0, <2>3 DEF Respond, Originated, Free
    <2> QED BY <2>1, <2>2, <2>3
  <1>2. OutcomesLast' /\ RepliesTrue'
    BY <1>0, <1>1 DEF SiInv, OutcomesLast, RepliesTrue
  <1>3. \A x \in Senders : dac'[x].outcome = "ack" => dac'[x].wire \in network'.done
    BY <1>0, <1>1 DEF SiInv, AckIsTrue
  <1> QED BY <1>0, <1>1, <1>2, <1>3, SenderSteps DEF SiInv, SiTypeOK

LEMMA PurgeSteps ==
  ASSUME SiInv, active' = active, NEW h \in Handles, Purge(h)
  PROVE  SiInv'
  <1>1. cache' \in [Handles -> Wires \cup {Nil}]
    BY DEF SiInv, SiTypeOK, Purge
  <1>2. OutcomesLast' /\ RepliesTrue'
    BY DEF SiInv, OutcomesLast, RepliesTrue, Purge
  <1> QED BY <1>1, <1>2, SenderSteps DEF SiInv, SiTypeOK, AckIsTrue, Purge, indexVars

LEMMA NasSteps ==
  ASSUME SiInv, active' = active, NEW x \in Wires, NEW ack \in BOOLEAN, NasAnswers(x, ack)
  PROVE  SiInv'
  <1>0. network \in [sent : SUBSET Wires, replies : SUBSET [wire : Wires, ack : BOOLEAN],
                     done : SUBSET Wires]
    BY DEF SiInv, SiTypeOK
  <1>1. /\ network' \in [sent : SUBSET Wires, replies : SUBSET [wire : Wires, ack : BOOLEAN],
                         done : SUBSET Wires]
        /\ network'.replies = network.replies \cup {[wire |-> x, ack |-> ack]}
        /\ network'.done = IF ack THEN network.done \cup {x} ELSE network.done
    <2> DEFINE reply == [wire |-> x, ack |-> ack]
               did == IF ack THEN network.done \cup {x} ELSE network.done
    <2>1. reply \in [wire : Wires, ack : BOOLEAN] /\ did \subseteq Wires
      <3>1. reply \in [wire : Wires, ack : BOOLEAN]
        BY Zenon
      <3> QED BY <1>0, <3>1
    <2>2. network' = [network EXCEPT !.replies = network.replies \cup {reply}, !.done = did]
      BY <1>0 DEF NasAnswers
    <2> HIDE DEF reply, did
    <2>3. /\ network' \in [sent : SUBSET Wires, replies : SUBSET [wire : Wires, ack : BOOLEAN],
                           done : SUBSET Wires]
          /\ network'.replies = network.replies \cup {reply} /\ network'.done = did
      BY <1>0, <2>1, <2>2
    <2> QED BY <2>3 DEF reply, did
  <1>2. OutcomesLast' /\ RepliesTrue'
    BY <1>1 DEF SiInv, OutcomesLast, RepliesTrue, NasAnswers
  <1>3. \A s \in Senders : dac'[s].outcome = "ack" => dac'[s].wire \in network'.done
    BY <1>1 DEF SiInv, AckIsTrue, NasAnswers
  <1> QED BY <1>1, <1>2, <1>3, SenderSteps DEF SiInv, SiTypeOK, NasAnswers, indexVars

(* The tables, the copies and the outcomes agree in every state.           *)
THEOREM SiInductive == SiSpec => []SiInv
  <1>1. SiInv /\ [SiNext]_siVars => SiInv'
    <2> SUFFICES ASSUME SiInv, [SiNext]_siVars PROVE SiInv'
      OBVIOUS
    <2>1. CASE UNCHANGED siVars
      <3>1. MovesTables
        BY <2>1 DEF SiInv, TablesOK, MovesTables, siVars, Rows
      <3> QED BY <2>1, <3>1, MoveSteps DEF siVars
    <2>2. CASE SiNext
      <3>0. active' = active /\ SiStep
        BY <2>2 DEF SiNext
      <3>1. ASSUME NEW kind \in active.kinds \cap {"start", "interim", "stop", "on"},
                   NEW k \in Keys, NEW u \in Names, NEW n \in active.nas, Apply(kind, k, u, n)
            PROVE  SiInv'
        BY <3>0, <3>1, ApplySteps
      <3>2. CASE Reset
        BY <3>0, <3>2, ResetSteps
      <3>3. ASSUME NEW h \in Handles, Due(h) \/ Purge(h)
            PROVE  SiInv'
        BY <3>0, <3>3, DueSteps, PurgeSteps
      <3>4. ASSUME NEW d \in Handlers, NEW q \in Queries,
                   FindNone(d, q) \/ \E code \in {"coa", "disconnect"} : Find(d, code, q)
            PROVE  SiInv'
        BY <3>0, <3>4, FindSteps, FindNoneSteps
      <3>5. ASSUME NEW d \in Handlers, Disconnect(d) \/ StoreLastCoA(d)
            PROVE  SiInv'
        BY <3>0, <3>5, DisconnectSteps, StoreSteps
      <3>6. CASE ListPage
        BY <3>0, <3>6, ListSteps
      <3>7. ASSUME NEW s \in Senders,
                   \/ \E h \in Handles : Target(s, h)
                   \/ Cached(s) \/ \E id \in {0, 1} : Sign(s, id)
            PROVE  SiInv'
        BY <3>0, <3>7, TargetSteps, CachedSteps, SignSteps
      <3>8. ASSUME NEW s \in Senders,
                   (\E r \in network.replies : Receive(s, r)) \/ Timeout(s) \/ Respond(s)
            PROVE  SiInv'
        BY <3>0, <3>8, OutcomeSteps
      <3>9. ASSUME NEW x \in Wires, NEW ack \in BOOLEAN, NasAnswers(x, ack)
            PROVE  SiInv'
        BY <3>0, <3>9, NasSteps
      <3> QED BY <3>0, <3>1, <3>2, <3>3, <3>4, <3>5, <3>6, <3>7, <3>8, <3>9 DEF SiStep
    <2> QED BY <2>1, <2>2
  <1> QED BY <1>1, SiInitial, PTL DEF SiSpec

(* byKey, byHandle and the byte account of the session index agree after   *)
(* every method, however many handlers and accounting records interleave.  *)
THEOREM IndexAgrees == SiSpec => []IndexConsistent
  <1>1. SiInv => IndexConsistent
    BY DEF SiInv, TablesOK, Sound, Linked, IndexConsistent
  <1> QED BY <1>1, SiInductive, PTL

(* An acknowledged Disconnect ends its session for good although the row   *)
(* is deleted by the key of an old copy, and an originated request is      *)
(* reported as acknowledged only if the NAS acknowledged it.               *)
THEOREM AcksAreTrue == SiSpec => []AckIsTrue
  <1>1. SiInv => AckIsTrue
    BY DEF SiInv
  <1> QED BY <1>1, SiInductive, PTL

-----------------------------------------------------------------------------
(* EAP conversations: the inductive invariant.                             *)

Handler ==
  [pc : {"idle", "put", "issue", "continue", "drive", "delete"}, client : Clients \cup {NoRec},
   ask : 0..MaxIssued, taken : Nat, rec : Challenge \cup {NoRec}, new : 0..MaxIssued,
   next : Challenge \cup {NoRec}]
Earned == [state : 0..MaxIssued, client : Clients, user : Users \cup {NoRec},
           granted : Nat, taken : Nat]

EapTypeOK ==
  /\ scene \in Scenes
  /\ entries \in [States -> Challenge \cup {NoRec}]
  /\ tunnels \in [States -> Tunnel \cup {NoRec}]
  /\ drawn \in 0..MaxIssued
  /\ owner \in [States -> Clients \cup {NoRec}]
  /\ w \in [Workers -> Handler]
  /\ granted \in [States -> Grant \cup {NoRec}]
  /\ accepts \in [States -> SUBSET Earned]
  /\ epoch \in Nat

(* What a handler holds, by its position.                                  *)
Shape(x) ==
  CASE x.pc = "idle"   -> x.rec = NoRec /\ x.next = NoRec
    [] x.pc = "put"    -> x.rec = NoRec /\ x.next # NoRec /\ x.next.step = "start"
                          /\ x.new \in States
    [] x.pc = "issue"  -> x.next # NoRec /\ x.new \in States
                          /\ (x.rec # NoRec => x.rec.root = x.next.root)
    [] x.pc = "delete" -> x.rec # NoRec /\ x.next = NoRec
    [] OTHER -> x.rec # NoRec /\ x.next = NoRec /\ x.client = x.rec.client
                /\ (x.pc = "drive" => Peap(x.rec.step))

(* The challenge a handler works on: the one it will issue, once it has    *)
(* made it, or else the one it took.                                       *)
Hand(x) == IF x.next # NoRec THEN x.next ELSE x.rec

(* The conversation in a handler's hands.                                  *)
Has(x, t) == Hand(x) # NoRec /\ Hand(x).root = t
Waits(r, t) == r # NoRec /\ r.root = t

(* A conversation is in one place.                                         *)
OnePlace ==
  \A t \in States :
    /\ \A p, q \in Workers : Has(w[p], t) /\ Has(w[q], t) => p = q
    /\ \A s, z \in States : Waits(entries[s], t) /\ Waits(entries[z], t) => s = z
    /\ \A p \in Workers, s \in States : ~(Has(w[p], t) /\ Waits(entries[s], t))

(* A challenge, stored or in hand, belongs to the client that began its    *)
(* conversation, and says "finish" once AAA has accepted the user it names.*)
(* The variables are parameters, to speak of the states before and after.  *)
Genuine(r, last, own, grants) ==
  /\ r.root <= last /\ r.client = own[r.root]
  /\ r.step = "finish" <=> grants[r.root] # NoRec
  /\ r.step = "finish" => r.reply = grants[r.root].user

(* While the tunnel of an accepted user is registered, the accept is of    *)
(* this epoch; the handler of its State took it in the same.               *)
Timely(r, registry, grants, since) ==
  r.step = "finish" /\ registry[r.root] # NoRec => grants[r.root].epoch = since

HandlerOK(x, last, own, grants, registry, now) ==
  /\ Shape(x)
  /\ Hand(x) # NoRec => /\ Genuine(Hand(x), last, own, grants)
                        /\ Timely(Hand(x), registry, grants, now)
  /\ x.pc = "continue" => Timely(x.rec, registry, grants, x.taken)
  /\ x.pc = "drive" /\ x.rec.step = "finish" => grants[x.rec.root].epoch = x.taken

HandlersOK == \A p \in Workers : HandlerOK(w[p], drawn, owner, granted, tunnels, epoch)
StoreOK == \A s \in States : entries[s] # NoRec =>
             /\ Genuine(entries[s], drawn, owner, granted)
             /\ Timely(entries[s], tunnels, granted, epoch)

(* A conversation that was not begun has left no trace, and one that was   *)
(* accepted is over.                                                       *)
Ended ==
  \A t \in States :
    /\ t > drawn => granted[t] = NoRec /\ accepts[t] = {}
    /\ accepts[t] # {} => /\ \A s \in States : ~Waits(entries[s], t)
                          /\ \A p \in Workers : Has(w[p], t) => w[p].pc = "delete"

Capacity ==
  /\ Cardinality(Live(entries)) <= MaxEntries
  /\ Cardinality({t \in States : tunnels[t] # NoRec}) <= TunnelCap

EapInv == EapTypeOK /\ HandlersOK /\ StoreOK /\ OnePlace /\ Ended /\ Capacity /\ AcceptIsEarned

(* State values are finitely many.                                         *)
LEMMA StatesCounted ==
  ASSUME NEW A, NEW B, A \subseteq B, B \subseteq States
  PROVE  /\ Cardinality(A) \in Nat /\ Cardinality(B) \in Nat
         /\ Cardinality(A) <= Cardinality(B)
  <1>1. IsFiniteSet(States)
    BY FS_Interval, EapAssumption DEF States
  <1>2. IsFiniteSet(B)
    BY <1>1, FS_Subset
  <1> QED BY <1>2, FS_Subset, FS_CardinalityType

LEMMA OneMoreState ==
  ASSUME NEW A, A \subseteq States, NEW s \in States
  PROVE  /\ Cardinality(A \cup {s}) <= Cardinality(A) + 1
         /\ Cardinality(A) \in Nat /\ Cardinality(A \cup {s}) \in Nat
  <1>0. IsFiniteSet(States)
    BY FS_Interval, EapAssumption DEF States
  <1>1. IsFiniteSet(A)
    BY <1>0, FS_Subset
  <1>2. Cardinality(A) \in Nat /\ Cardinality(A \cup {s}) \in Nat
    BY <1>1, FS_AddElement, FS_CardinalityType
  <1> QED BY <1>1, <1>2, FS_AddElement

(* A set with at most one element counts for at most one.                  *)
LEMMA AtMostOne ==
  ASSUME NEW S, \A x, y \in S : x = y
  PROVE  Cardinality(S) \in {0, 1} /\ (S = {} => Cardinality(S) = 0)
  <1>1. CASE S = {}
    BY <1>1, FS_EmptySet
  <1>2. CASE S # {}
    <2>1. PICK x : x \in S
      BY <1>2
    <2>2. S = {x}
      BY <2>1
    <2> QED BY <2>2, FS_Singleton
  <1> QED BY <1>1, <1>2

(* The conversation is in one place, as OneDriver counts it.               *)
LEMMA EapInvOneDriver == EapInv => OneDriver
  <1> SUFFICES ASSUME EapInv PROVE OneDriver
    OBVIOUS
  <1>1. ASSUME NEW t \in States
        PROVE  Cardinality({p \in Workers : Drives(p, t)})
                 + Cardinality({s \in States : entries[s] # NoRec /\ entries[s].root = t}) <= 1
    <2> DEFINE P == {p \in Workers : Drives(p, t)}
               S == {s \in States : entries[s] # NoRec /\ entries[s].root = t}
    <2>1. \A p \in P : p \in Workers /\ Has(w[p], t)
      BY DEF EapInv, EapTypeOK, HandlersOK, HandlerOK, Shape, Handler, Drives, Has, Hand
    <2>2. /\ \A p, q \in P : p = q
          /\ \A s, z \in S : s = z
          /\ P = {} \/ S = {}
      BY <2>1 DEF EapInv, OnePlace, Waits
    <2> HIDE DEF P, S
    <2>3. /\ Cardinality(P) \in {0, 1} /\ (P = {} => Cardinality(P) = 0)
          /\ Cardinality(S) \in {0, 1} /\ (S = {} => Cardinality(S) = 0)
      BY <2>2, AtMostOne
    <2>4. Cardinality(P) + Cardinality(S) <= 1
      BY <2>2, <2>3
    <2> QED BY <2>4 DEF P, S
  <1> QED BY <1>1 DEF EapInv, Capacity, OneDriver

LEMMA EapInitial == EapInit => EapInv
  <1> SUFFICES ASSUME EapInit PROVE EapInv
    OBVIOUS
  <1>1. EapTypeOK
    <2>1. Idle \in Handler
      BY EapAssumption DEF Idle, Handler
    <2> QED BY <2>1, EapAssumption DEF EapInit, EapTypeOK
  <1>2. HandlersOK /\ StoreOK
    BY DEF EapInit, HandlersOK, StoreOK, HandlerOK, Shape, Idle, Hand
  <1>3. OnePlace /\ Ended /\ AcceptIsEarned
    <2>1. \A t \in States : accepts[t] = {}
      BY DEF EapInit
    <2> QED BY <2>1, FS_EmptySet DEF EapInit, OnePlace, Has, Waits, Hand, Idle, Ended, AcceptIsEarned
  <1>4. Capacity
    <2>1. Live(entries) = {} /\ {t \in States : tunnels[t] # NoRec} = {}
      BY DEF EapInit, Live
    <2> QED BY <2>1, FS_EmptySet, EapAssumption DEF Capacity
  <1> QED BY <1>1, <1>2, <1>3, <1>4 DEF EapInv

-----------------------------------------------------------------------------
(* EAP conversations: the steps.                                           *)

(* What a conversation t shows to those who do not hold it is left alone.  *)
Untouched(t) ==
  /\ owner'[t] = owner[t] /\ granted'[t] = granted[t]
  /\ tunnels'[t] # NoRec => tunnels[t] # NoRec

LEMMA FrameHolds ==
  ASSUME NEW r, NEW since, Untouched(r.root), Genuine(r, drawn, owner, granted), 
         drawn \in Nat, drawn' \in Nat, drawn <= drawn', r.root \in Nat
  PROVE  /\ Genuine(r, drawn', owner', granted')
         /\ Timely(r, tunnels, granted, since) => Timely(r, tunnels', granted', since)
  BY DEF Untouched, Genuine, Timely

(* A handler's step that sends no Access-Accept: it works on the           *)
(* conversation it holds, begins a new one, or takes one from the store;   *)
(* and the store keeps, drops, or gets what the handler held.              *)
LEMMA StepKeeps ==
  ASSUME EapInv, EapTypeOK', Capacity', NEW p \in Workers,
         \A q \in Workers : q # p => w'[q] = w[q],
         HandlerOK(w'[p], drawn', owner', granted', tunnels', epoch'),
         epoch' = epoch, accepts' = accepts, drawn <= drawn',
         \A t \in States : t <= drawn /\ ~Has(w[p], t) => Untouched(t),
         \A t \in States : t > drawn' => granted'[t] = granted[t],
         \A t \in States : Has(w[p], t) => owner'[t] = owner[t],
         \A t \in States : accepts[t] # {} => granted'[t] = granted[t],
         \A t \in States : Has(w'[p], t) =>
            \/ Has(w[p], t) /\ w[p].pc # "delete"
            \/ t > drawn
            \/ \E s \in States : Waits(entries[s], t) /\ entries'[s] = NoRec,
         \A s \in States : entries'[s] # NoRec =>
            \/ entries'[s] = entries[s]
            \/ /\ w[p].pc = "issue" /\ entries'[s] = w[p].next /\ s = w[p].new
               /\ Hand(w'[p]) = NoRec /\ tunnels' = tunnels /\ granted' = granted
  PROVE  EapInv'
  <1>0. /\ EapTypeOK /\ HandlersOK /\ StoreOK /\ OnePlace /\ Ended /\ AcceptIsEarned
        /\ drawn \in Nat /\ drawn' \in Nat
    BY DEF EapInv, EapTypeOK
  <1>1. \A q \in Workers : Hand(w[q]) # NoRec => Hand(w[q]) \in Challenge
    BY <1>0 DEF EapTypeOK, Handler, Hand
  <1>2. \A s \in States : entries[s] # NoRec => entries[s] \in Challenge
    BY <1>0 DEF EapTypeOK
  <1>3. \A r \in Challenge : r.root \in States /\ r.root \in Nat
    BY DEF Challenge, States
  <1>4. \A q \in Workers : Hand(w[q]) # NoRec => Hand(w[q]).root <= drawn
    BY <1>0 DEF HandlersOK, HandlerOK, Genuine
  <1>5. \A s \in States : entries[s] # NoRec => entries[s].root <= drawn
    BY <1>0 DEF StoreOK, Genuine
  <1>6. HandlersOK'
    <2>1. ASSUME NEW q \in Workers, q # p
          PROVE  HandlerOK(w[q], drawn', owner', granted', tunnels', epoch)
      <3>1. HandlerOK(w[q], drawn, owner, granted, tunnels, epoch)
        BY <1>0 DEF HandlersOK
      <3>2. CASE Hand(w[q]) = NoRec
        <4>1. w[q].pc = "idle"
          BY <3>1, <3>2 DEF HandlerOK, Shape, Hand
        <4> QED BY <3>1, <3>2, <4>1 DEF HandlerOK
      <3>3. CASE Hand(w[q]) # NoRec
        <4> DEFINE r == Hand(w[q])
        <4>1. r \in Challenge /\ r.root \in States /\ r.root \in Nat /\ r.root <= drawn
          BY <1>1, <1>3, <1>4, <3>3
        <4>2. ~Has(w[p], r.root)
          BY <1>0, <2>1, <3>3, <4>1 DEF OnePlace, Has
        <4>3. Untouched(r.root)
          BY <4>1, <4>2
        <4>4. Genuine(r, drawn, owner, granted)
          BY <3>1, <3>3 DEF HandlerOK
        <4>5. w[q].pc \in {"continue", "drive"} => r = w[q].rec
          BY <3>1 DEF HandlerOK, Shape, Hand
        <4> HIDE DEF r
        <4>6. /\ Genuine(r, drawn', owner', granted')
              /\ Timely(r, tunnels, granted, epoch) => Timely(r, tunnels', granted', epoch)
              /\ Timely(r, tunnels, granted, w[q].taken) => Timely(r, tunnels', granted', w[q].taken)
          BY <1>0, <4>1, <4>3, <4>4, FrameHolds
        <4>7. granted'[r.root] = granted[r.root]
          BY <4>3 DEF Untouched
        <4> QED BY <3>1, <4>5, <4>6, <4>7 DEF HandlerOK, r
      <3> QED BY <3>2, <3>3
    <2> QED BY <2>1 DEF HandlersOK
  <1>7. StoreOK'
    <2>1. ASSUME NEW s \in States, entries'[s] # NoRec
          PROVE  /\ Genuine(entries'[s], drawn', owner', granted')
                 /\ Timely(entries'[s], tunnels', granted', epoch)
      <3>1. CASE entries'[s] = entries[s]
        <4>1. PICK r \in Challenge : r = entries[s]
          BY <1>2, <2>1, <3>1
        <4>2. /\ r.root \in States /\ r.root \in Nat /\ r.root <= drawn
              /\ ~Has(w[p], r.root)
          BY <1>0, <1>3, <1>5, <2>1, <3>1, <4>1 DEF OnePlace, Waits
        <4>3. Untouched(r.root)
          BY <4>2
        <4>4. Genuine(r, drawn, owner, granted) /\ Timely(r, tunnels, granted, epoch)
          BY <1>0, <2>1, <3>1, <4>1 DEF StoreOK
        <4> QED BY <1>0, <3>1, <4>1, <4>2, <4>3, <4>4, FrameHolds
      <3>2. CASE /\ w[p].pc = "issue" /\ entries'[s] = w[p].next
                 /\ tunnels' = tunnels /\ granted' = granted
        <4>1. HandlerOK(w[p], drawn, owner, granted, tunnels, epoch)
          BY <1>0 DEF HandlersOK
        <4>2. Hand(w[p]) = w[p].next /\ w[p].next # NoRec
          BY <3>2, <4>1 DEF HandlerOK, Shape, Hand
        <4>3. PICK r \in Challenge : r = w[p].next
          BY <1>1, <4>2
        <4>4. r.root \in States /\ r.root \in Nat /\ Has(w[p], r.root)
          BY <1>3, <4>2, <4>3 DEF Has
        <4>5. Genuine(r, drawn, owner, granted) /\ Timely(r, tunnels, granted, epoch)
          BY <3>2, <4>1, <4>2, <4>3 DEF HandlerOK
        <4>6. Untouched(r.root)
          BY <3>2, <4>4 DEF Untouched
        <4> QED BY <1>0, <3>2, <4>3, <4>4, <4>5, <4>6, FrameHolds
      <3> QED BY <2>1, <3>1, <3>2
    <2> QED BY <2>1 DEF StoreOK
  <1>8. OnePlace'
    <2> SUFFICES ASSUME NEW t \in States
                 PROVE  /\ \A a, b \in Workers : Has(w'[a], t) /\ Has(w'[b], t) => a = b
                        /\ \A s, z \in States : Waits(entries'[s], t) /\ Waits(entries'[z], t) => s = z
                        /\ \A a \in Workers, s \in States : ~(Has(w'[a], t) /\ Waits(entries'[s], t))
      BY DEF OnePlace
    <2>0. /\ \A a, b \in Workers : Has(w[a], t) /\ Has(w[b], t) => a = b
          /\ \A s, z \in States : Waits(entries[s], t) /\ Waits(entries[z], t) => s = z
          /\ \A a \in Workers, s \in States : ~(Has(w[a], t) /\ Waits(entries[s], t))
      BY <1>0 DEF OnePlace
    <2>1. \A q \in Workers : Has(w[q], t) => ~(t > drawn)
      BY <1>0, <1>4 DEF Has, States
    <2>2. \A s \in States : Waits(entries[s], t) => ~(t > drawn)
      BY <1>0, <1>5 DEF Waits, States
    <2>3. \A s \in States : Waits(entries'[s], t) =>
            \/ Waits(entries[s], t)
            \/ Has(w[p], t) /\ s = w[p].new /\ ~Has(w'[p], t)
      <3>1. w[p].pc = "issue" => Hand(w[p]) = w[p].next
        BY <1>0 DEF HandlersOK, HandlerOK, Shape, Hand
      <3> QED BY <3>1 DEF Waits, Has
    <2>4. \A s \in States : Waits(entries'[s], t) => ~Has(w'[p], t)
      <3>1. \A s, z \in States : Waits(entries[s], t) /\ entries'[s] = NoRec => ~Waits(entries'[z], t)
        BY <2>0, <2>3 DEF Waits
      <3> QED BY <2>0, <2>1, <2>2, <2>3, <3>1
    <2>5. \A q \in Workers : q # p /\ Has(w[q], t) => ~Has(w'[p], t)
      BY <2>0, <2>1
    <2>6. \A q \in Workers, s \in States : q # p /\ Has(w[q], t) => ~Waits(entries'[s], t)
      BY <2>0, <2>3
    <2>7. \A s, z \in States : Waits(entries'[s], t) /\ Waits(entries'[z], t) => s = z
      BY <2>0, <2>3
    <2>8. \A a, b \in Workers : Has(w'[a], t) /\ Has(w'[b], t) => a = b
      BY <2>0, <2>5
    <2>9. \A a \in Workers, s \in States : ~(Has(w'[a], t) /\ Waits(entries'[s], t))
      BY <2>4, <2>6
    <2> QED BY <2>7, <2>8, <2>9
  <1>9. Ended'
    <2> SUFFICES ASSUME NEW t \in States
                 PROVE  /\ t > drawn' => granted'[t] = NoRec /\ accepts'[t] = {}
                        /\ accepts'[t] # {} =>
                             /\ \A s \in States : ~Waits(entries'[s], t)
                             /\ \A q \in Workers : Has(w'[q], t) => w'[q].pc = "delete"
      BY DEF Ended
    <2>1. t \in Nat
      BY DEF States
    <2>2. t > drawn' => granted'[t] = NoRec /\ accepts'[t] = {}
      BY <1>0, <2>1 DEF Ended
    <2>3. ASSUME accepts[t] # {}
          PROVE  /\ \A s \in States : ~Waits(entries'[s], t)
                 /\ \A q \in Workers : Has(w'[q], t) => w'[q].pc = "delete"
      <3>1. /\ \A s \in States : ~Waits(entries[s], t)
            /\ \A q \in Workers : Has(w[q], t) => w[q].pc = "delete"
            /\ ~(t > drawn)
        BY <1>0, <2>3 DEF Ended
      <3>2. w[p].pc = "issue" => Hand(w[p]) = w[p].next
        BY <1>0 DEF HandlersOK, HandlerOK, Shape, Hand
      <3>3. \A s \in States : ~Waits(entries'[s], t)
        BY <3>1, <3>2 DEF Waits, Has
      <3>4. ~Has(w'[p], t)
        BY <3>1
      <3> QED BY <3>1, <3>3, <3>4
    <2> QED BY <2>2, <2>3
  <1>10. AcceptIsEarned'
    <2>1. ASSUME NEW t \in States, accepts[t] # {}
          PROVE  owner'[t] = owner[t] /\ granted'[t] = granted[t]
      <3>1. t <= drawn
        BY <1>0, <2>1 DEF Ended, States
      <3> QED BY <2>1, <3>1 DEF Untouched
    <2>2. ASSUME NEW t \in States, accepts[t] = {}
          PROVE  Cardinality(accepts[t]) <= 1
      BY <2>2, FS_EmptySet
    <2> QED BY <1>0, <2>1, <2>2 DEF AcceptIsEarned
  <1> QED BY <1>6, <1>7, <1>8, <1>9, <1>10 DEF EapInv

(* A handler that has ended.                                               *)
LEMMA IdleOK ==
  /\ Idle \in Handler /\ Hand(Idle) = NoRec /\ \A t : ~Has(Idle, t)
  /\ \A last, own, grants, registry, now : HandlerOK(Idle, last, own, grants, registry, now)
  BY EapAssumption DEF Idle, Handler, Hand, Has, HandlerOK, Shape

(* A handler that is on its way out, with the tunnel still to be deleted.  *)
LEMMA LeavingOK ==
  ASSUME NEW r \in Challenge, NEW x, x = [Idle EXCEPT !.pc = "delete", !.rec = r],
         NEW last, NEW own, NEW grants, NEW registry, NEW now,
         Genuine(r, last, own, grants), Timely(r, registry, grants, now)
  PROVE  /\ x \in Handler /\ x.pc = "delete" /\ Hand(x) = r
         /\ HandlerOK(x, last, own, grants, registry, now)
  <1>1. r # NoRec
    BY EapAssumption
  <1>2. x \in Handler /\ x.pc = "delete" /\ x.rec = r /\ x.next = NoRec
    <2>1. 0 \in 0..MaxIssued
      BY EapAssumption
    <2>2. x = [pc |-> "delete", client |-> NoRec, ask |-> 0, taken |-> 0, rec |-> r,
               new |-> 0, next |-> NoRec]
      BY DEF Idle
    <2>3. [pc |-> "delete", client |-> NoRec, ask |-> 0, taken |-> 0, rec |-> r,
               new |-> 0, next |-> NoRec] \in Handler
      BY <2>1 DEF Handler
    <2>4. x \in Handler
      BY <2>2, <2>3
    <2>5. x.pc = "delete" /\ x.rec = r /\ x.next = NoRec
      BY DEF Idle
    <2> QED BY <2>4, <2>5
  <1>3. Hand(x) = r
    BY <1>2 DEF Hand
  <1>4. Shape(x)
    BY <1>1, <1>2 DEF Shape
  <1> QED BY <1>2, <1>3, <1>4 DEF HandlerOK

(* What the invariant says of one handler.                                 *)
LEMMA HandFacts ==
  ASSUME EapInv, NEW p \in Workers
  PROVE  /\ w[p] \in Handler /\ HandlerOK(w[p], drawn, owner, granted, tunnels, epoch)
         /\ Hand(w[p]) # NoRec => /\ Hand(w[p]) \in Challenge /\ Hand(w[p]).root \in States
                                  /\ Hand(w[p]).root <= drawn
         /\ \A t \in States : Has(w[p], t) => t <= drawn
         /\ w[p].pc \in {"put", "issue"} => Hand(w[p]) = w[p].next /\ w[p].next # NoRec
         /\ w[p].pc \in {"continue", "drive", "delete"} => Hand(w[p]) = w[p].rec /\ w[p].rec # NoRec
         /\ w[p].pc = "idle" => Hand(w[p]) = NoRec
  <1>1. w[p] \in Handler /\ HandlerOK(w[p], drawn, owner, granted, tunnels, epoch)
    BY DEF EapInv, EapTypeOK, HandlersOK
  <1>2. Hand(w[p]) # NoRec => Hand(w[p]) \in Challenge
    BY <1>1 DEF Handler, Hand
  <1>3. Hand(w[p]) # NoRec => Hand(w[p]).root \in States /\ Hand(w[p]).root <= drawn
    BY <1>1, <1>2 DEF HandlerOK, Genuine, Challenge
  <1>4. Shape(w[p])
    BY <1>1 DEF HandlerOK
  <1> QED BY <1>1, <1>2, <1>3, <1>4 DEF Has, Shape, Hand

(* startFromIdentity begins a conversation that nobody has heard of.       *)
LEMMA BeginKeeps ==
  ASSUME EapInv, NEW p \in Workers, NEW c \in Clients, NEW u \in Users \cup {NoRec},
         NEW peapAllowed \in BOOLEAN, StartFromIdentity(p, c, u, peapAllowed),
         UNCHANGED <<scene, entries, tunnels, granted, accepts, epoch>>
  PROVE  EapInv'
  <1> DEFINE s == drawn + 1
             step == IF u = NoRec THEN "identity" ELSE IF peapAllowed THEN "start" ELSE "md5"
             next == Record(c, u, step, s)
             x == [Idle EXCEPT !.pc = IF step = "start" THEN "put" ELSE "issue",
                               !.client = c, !.new = s, !.next = next]
  <1>0. EapTypeOK /\ Ended /\ Capacity /\ drawn \in Nat
    BY DEF EapInv, EapTypeOK
  <1>1. /\ s \in States /\ s \in 0..MaxIssued /\ s > drawn /\ drawn' = s
        /\ owner' = [owner EXCEPT ![s] = c] /\ w' = [w EXCEPT ![p] = x]
    BY <1>0, EapAssumption DEF StartFromIdentity, EapTypeOK, States
  <1>2. step \in {"identity", "start", "md5"}
    OBVIOUS
  <1>3. /\ next \in Challenge /\ next.root = s /\ next.client = c /\ next.step = step
        /\ next # NoRec
    <2> HIDE DEF s
    <2>1. next \in Challenge /\ next.root = s /\ next.client = c /\ next.step = step
      <3>1. (IF step = "md5" THEN u ELSE NoRec) \in Users \cup {NoRec}
        OBVIOUS
      <3>2. step \in Steps
        BY <1>2 DEF Steps
      <3> HIDE DEF step
      <3> QED BY <1>1, <3>1, <3>2 DEF Record, Challenge
    <2> QED BY <2>1, EapAssumption
  <1> HIDE DEF s, step, next
  <1>4. /\ x \in Handler /\ x.pc = IF step = "start" THEN "put" ELSE "issue"
        /\ x.rec = NoRec /\ x.next = next /\ x.new = s
    <2>1. 0 \in 0..MaxIssued
      BY EapAssumption
    <2> DEFINE at == IF step = "start" THEN "put" ELSE "issue"
    <2>2. at \in {"put", "issue"} /\ x = [Idle EXCEPT !.pc = at, !.client = c, !.new = s, !.next = next]
      OBVIOUS
    <2> HIDE DEF x, at
    <2>3. x = [pc |-> at, client |-> c, ask |-> 0, taken |-> 0, rec |-> NoRec, new |-> s,
               next |-> next]
      BY <2>2 DEF Idle
    <2>4. at \in {"put", "issue"}
      BY <2>2
    <2>5. [pc |-> at, client |-> c, ask |-> 0, taken |-> 0, rec |-> NoRec, new |-> s,
           next |-> next] \in Handler
      BY <1>1, <1>3, <2>1, <2>4 DEF Handler
    <2>6. x \in Handler
      BY <2>3, <2>5
    <2>7. x.pc = at /\ x.rec = NoRec /\ x.next = next /\ x.new = s
      BY <2>3
    <2> QED BY <2>6, <2>7 DEF at
  <1> HIDE DEF x
  <1>5. Shape(x) /\ Hand(x) = next
    BY <1>1, <1>3, <1>4 DEF Shape, Hand
  <1>6. owner'[s] = c /\ granted[s] = NoRec
    BY <1>0, <1>1 DEF EapTypeOK, Ended
  <1>7. HandlerOK(x, drawn', owner', granted', tunnels', epoch')
    <2>1. Genuine(next, s, owner', granted) /\ Timely(next, tunnels, granted, epoch)
      BY <1>0, <1>1, <1>2, <1>3, <1>6 DEF Genuine, Timely
    <2> QED BY <1>1, <1>4, <1>5, <2>1 DEF HandlerOK
  <1>8. /\ w'[p] = x /\ \A q \in Workers : q # p => w'[q] = w[q]
        /\ w' \in [Workers -> Handler] /\ owner' \in [States -> Clients \cup {NoRec}]
        /\ \A t \in States : t # s => owner'[t] = owner[t]
    BY <1>0, <1>1, <1>4 DEF EapTypeOK
  <1>9. EapTypeOK'
    BY <1>0, <1>1, <1>8 DEF EapTypeOK
  <1>10. Capacity'
    BY <1>0 DEF Capacity, Live
  <1>11. \A t \in States : Has(w'[p], t) => t > drawn
    BY <1>1, <1>3, <1>5, <1>8 DEF Has
  <1>12. \A t \in States : t <= drawn => owner'[t] = owner[t]
    BY <1>0, <1>1, <1>8 DEF States
  <1>13. \A t \in States : t <= drawn => Untouched(t)
    BY <1>12 DEF Untouched
  <1>14. \A t \in States : Has(w[p], t) => owner'[t] = owner[t]
    BY <1>12, HandFacts
  <1>15. drawn <= drawn'
    BY <1>0, <1>1
  <1> QED BY <1>7, <1>8, <1>9, <1>10, <1>11, <1>13, <1>14, <1>15, StepKeeps

(* expireLocked: what is left was there, and is live.                      *)
LEMMA ExpiredLess ==
  ASSUME NEW T, NEW table \in [States -> T \cup {NoRec}]
  PROVE  /\ Expired(table) \in [States -> T \cup {NoRec}]
         /\ \A s \in States : Expired(table)[s] # NoRec => Expired(table)[s] = table[s]
         /\ {s \in States : Expired(table)[s] # NoRec} = Live(table)
         /\ Live(Expired(table)) = Live(table)
  BY DEF Expired, Live

(* The handler leaves without a challenge.                                 *)
LEMMA LeaveKeeps ==
  ASSUME EapInv, NEW p \in Workers, w[p].pc \in {"continue", "drive", "issue"},
         Leave(p, Hand(w[p])),
         UNCHANGED <<scene, owner, drawn, granted, accepts, epoch>>,
         tunnels' \in [States -> Tunnel \cup {NoRec}], entries' \in [States -> Challenge \cup {NoRec}],
         \A t \in States : tunnels'[t] # NoRec => tunnels[t] # NoRec,
         \A s \in States : entries'[s] # NoRec => entries'[s] = entries[s],
         Capacity'
  PROVE  EapInv'
  <1> DEFINE r == Hand(w[p])
             x == IF Peap(r.step) THEN [Idle EXCEPT !.pc = "delete", !.rec = r] ELSE Idle
  <1>0. EapTypeOK /\ drawn \in Nat
    BY DEF EapInv, EapTypeOK
  <1>1. /\ r \in Challenge /\ r # NoRec
        /\ Genuine(r, drawn, owner, granted) /\ Timely(r, tunnels, granted, epoch)
    BY HandFacts DEF HandlerOK
  <1>2. Timely(r, tunnels', granted, epoch)
    BY <1>1 DEF Timely, Challenge
  <1>3. w' = [w EXCEPT ![p] = x]
    BY DEF Leave
  <1>4. /\ x \in Handler /\ HandlerOK(x, drawn, owner, granted, tunnels', epoch)
        /\ Hand(x) \in {r, NoRec}
    <2>1. CASE Peap(r.step)
      <3>1. x = [Idle EXCEPT !.pc = "delete", !.rec = r]
        BY <2>1
      <3> HIDE DEF x, r
      <3> QED BY <1>1, <1>2, <3>1, LeavingOK
    <2>2. CASE ~Peap(r.step)
      <3>1. x = Idle
        BY <2>2
      <3> HIDE DEF x
      <3> QED BY <3>1, IdleOK
    <2> QED BY <2>1, <2>2
  <1> HIDE DEF x
  <1>5. /\ w'[p] = x /\ w' \in [Workers -> Handler]
        /\ \A q \in Workers : q # p => w'[q] = w[q]
    BY <1>0, <1>3, <1>4 DEF EapTypeOK
  <1>6. EapTypeOK'
    BY <1>0, <1>5 DEF EapTypeOK
  <1>7. \A t \in States : Has(w'[p], t) => Has(w[p], t) /\ w[p].pc # "delete"
    BY <1>4, <1>5 DEF Has
  <1>8. \A t \in States : Untouched(t)
    BY DEF Untouched
  <1>9. HandlerOK(w'[p], drawn', owner', granted', tunnels', epoch')
    BY <1>4, <1>5
  <1> HIDE DEF r
  <1> QED BY <1>0, <1>5, <1>6, <1>7, <1>8, <1>9, StepKeeps

(* A table that only loses entries stays within its limit.                 *)
LEMMA LessKeepsCapacity ==
  ASSUME EapInv, \A s \in States : entries'[s] # NoRec => entries'[s] = entries[s],
         \A t \in States : tunnels'[t] # NoRec => tunnels[t] # NoRec
  PROVE  Capacity'
  <1> DEFINE Open(registry) == {t \in States : registry[t] # NoRec}
  <1>1. /\ Live(entries') \subseteq Live(entries) /\ Live(entries) \subseteq States
        /\ Open(tunnels') \subseteq Open(tunnels) /\ Open(tunnels) \subseteq States
    BY DEF Live
  <1>2. Cardinality(Live(entries)) <= MaxEntries /\ Cardinality(Open(tunnels)) <= TunnelCap
    BY DEF EapInv, Capacity
  <1> HIDE DEF Open
  <1>3. /\ Cardinality(Live(entries')) <= MaxEntries
        /\ Cardinality(Open(tunnels')) <= TunnelCap
    BY <1>1, <1>2, StatesCounted, EapAssumption
  <1> QED BY <1>3 DEF Capacity, Open, Live

(* A packet arrives.                                                       *)
LEMMA StartSteps ==
  ASSUME EapInv, scene' = scene, NEW p \in Workers, NEW c \in Clients, HandleEAPStart(p, c)
  PROVE  EapInv'
  BY BeginKeeps DEF HandleEAPStart

LEMMA ConsumeSteps ==
  ASSUME EapInv, scene' = scene, NEW p \in Workers, NEW c \in Clients, NEW s \in States,
         Consume(p, c, s)
  PROVE  EapInv'
  <1> DEFINE x == [Idle EXCEPT !.pc = "continue", !.client = c, !.ask = s, !.taken = epoch,
                               !.rec = entries[s]]
  <1>0. /\ EapTypeOK /\ drawn \in Nat /\ epoch \in Nat /\ Capacity
        /\ w[p].pc = "idle" /\ entries[s] # NoRec /\ entries[s] \in Challenge
        /\ entries' = [entries EXCEPT ![s] = NoRec]
        /\ UNCHANGED <<tunnels, drawn, owner, granted, accepts, epoch>>
    BY DEF EapInv, EapTypeOK, Consume, Taken
  <1>1. /\ entries' \in [States -> Challenge \cup {NoRec}] /\ entries'[s] = NoRec
        /\ \A z \in States : entries'[z] # NoRec => entries'[z] = entries[z]
    BY <1>0 DEF EapTypeOK
  <1>2. Genuine(entries[s], drawn, owner, granted) /\ Timely(entries[s], tunnels, granted, epoch)
    BY <1>0 DEF EapInv, StoreOK
  <1>3. w' = [w EXCEPT ![p] = Idle] \/ (w' = [w EXCEPT ![p] = x] /\ entries[s].client = c)
    BY DEF Consume, Reject, Bound
  <1>4. PICK y : (y = Idle \/ (y = x /\ entries[s].client = c)) /\ w' = [w EXCEPT ![p] = y]
    BY <1>3
  <1>5. /\ y \in Handler /\ HandlerOK(y, drawn, owner, granted, tunnels, epoch)
        /\ Hand(y) \in {entries[s], NoRec}
    <2>1. CASE y = Idle
      BY <2>1, IdleOK
    <2>2. CASE y = x /\ entries[s].client = c
      <3>1. PICK r \in Challenge : r = entries[s]
        BY <1>0
      <3>2. s \in 0..MaxIssued /\ 0 \in 0..MaxIssued
        BY EapAssumption DEF States
      <3>3. y = [pc |-> "continue", client |-> c, ask |-> s, taken |-> epoch, rec |-> r,
                 new |-> 0, next |-> NoRec]
        BY <2>2, <3>1 DEF Idle
      <3>4. [pc |-> "continue", client |-> c, ask |-> s, taken |-> epoch, rec |-> r,
             new |-> 0, next |-> NoRec] \in Handler
        BY <1>0, <3>2 DEF Handler
      <3>5. y \in Handler
        BY <3>3, <3>4
      <3>6. y.pc = "continue" /\ y.client = c /\ y.taken = epoch /\ y.rec = r /\ y.next = NoRec
        BY <3>3
      <3>7. Hand(y) = r /\ Shape(y)
        BY <1>0, <2>2, <3>1, <3>6 DEF Hand, Shape
      <3>8. HandlerOK(y, drawn, owner, granted, tunnels, epoch)
        BY <1>2, <3>1, <3>6, <3>7 DEF HandlerOK
      <3> QED BY <3>1, <3>5, <3>7, <3>8
    <2> QED BY <1>4, <2>1, <2>2
  <1> HIDE DEF x
  <1>6. /\ w'[p] = y /\ w' \in [Workers -> Handler]
        /\ \A q \in Workers : q # p => w'[q] = w[q]
    BY <1>0, <1>4, <1>5 DEF EapTypeOK
  <1>7. EapTypeOK'
    BY <1>0, <1>1, <1>6 DEF EapTypeOK
  <1>8. Capacity'
    BY <1>0, <1>1, LessKeepsCapacity
  <1>9. \A t \in States : Has(w'[p], t) => \E z \in States : Waits(entries[z], t) /\ entries'[z] = NoRec
    BY <1>1, <1>5, <1>6 DEF Has, Waits
  <1>10. \A t \in States : Untouched(t)
    BY <1>0 DEF Untouched
  <1>11. HandlerOK(w'[p], drawn', owner', granted', tunnels', epoch')
    BY <1>0, <1>5, <1>6
  <1> QED BY <1>0, <1>1, <1>6, <1>7, <1>8, <1>9, <1>10, <1>11, StepKeeps

(* handlePEAP up to Tunnels.Get.                                           *)
LEMMA GetSteps ==
  ASSUME EapInv, scene' = scene, NEW p \in Workers, GetTunnel(p)
  PROVE  EapInv'
  <1>0. /\ EapTypeOK /\ drawn \in Nat /\ w[p].pc = "continue" /\ Peap(w[p].rec.step)
        /\ tunnels' = Expired(tunnels) /\ tunnels \in [States -> Tunnel \cup {NoRec}]
        /\ UNCHANGED <<scene, entries, drawn, owner, granted, accepts, epoch>>
    BY DEF EapInv, EapTypeOK, GetTunnel
  <1>1. /\ tunnels' \in [States -> Tunnel \cup {NoRec}]
        /\ \A t \in States : tunnels'[t] # NoRec => tunnels[t] # NoRec
    BY <1>0, ExpiredLess
  <1>2. Capacity'
    BY <1>0, <1>1, LessKeepsCapacity
  <1>3. Hand(w[p]) = w[p].rec /\ w[p].rec \in Challenge /\ w[p].rec.root \in States
        /\ w[p] \in Handler /\ HandlerOK(w[p], drawn, owner, granted, tunnels, epoch)
    BY <1>0, HandFacts
  <1>4. CASE Leave(p, w[p].rec)
    <2>1. entries' \in [States -> Challenge \cup {NoRec}]
      BY <1>0 DEF EapTypeOK
    <2> QED BY <1>0, <1>1, <1>2, <1>3, <1>4, <2>1, LeaveKeeps
  <1>5. CASE tunnels'[w[p].rec.root] # NoRec /\ w' = [w EXCEPT ![p].pc = "drive"]
    <2> DEFINE x == [w[p] EXCEPT !.pc = "drive"]
    <2>1. x \in Handler /\ x.pc = "drive" /\ x.rec = w[p].rec /\ x.next = w[p].next
          /\ x.client = w[p].client /\ x.taken = w[p].taken
      BY <1>3 DEF Handler
    <2>2. w'[p] = x /\ w' \in [Workers -> Handler] /\ \A q \in Workers : q # p => w'[q] = w[q]
      BY <1>0, <1>5, <2>1 DEF EapTypeOK
    <2> HIDE DEF x
    <2>3. EapTypeOK'
      BY <1>0, <1>1, <2>2 DEF EapTypeOK
    <2>4. Shape(x) /\ Hand(x) = w[p].rec
      BY <1>0, <1>3, <2>1 DEF HandlerOK, Shape, Hand
    <2>5. w[p].rec.step = "finish" => granted[w[p].rec.root].epoch = w[p].taken
      BY <1>0, <1>1, <1>3, <1>5 DEF HandlerOK, Timely
    <2>6. HandlerOK(x, drawn, owner, granted, tunnels', epoch)
      <3>1. Genuine(w[p].rec, drawn, owner, granted) /\ Timely(w[p].rec, tunnels, granted, epoch)
        BY <1>3, EapAssumption DEF HandlerOK
      <3>2. Timely(w[p].rec, tunnels', granted, epoch)
        BY <1>1, <1>3, <3>1 DEF Timely
      <3> QED BY <2>1, <2>4, <2>5, <3>1, <3>2 DEF HandlerOK
    <2>7. \A t \in States : Has(w'[p], t) => Has(w[p], t) /\ w[p].pc # "delete"
      BY <1>0, <1>3, <2>2, <2>4 DEF Has
    <2>8. \A t \in States : Untouched(t)
      BY <1>0, <1>1 DEF Untouched
    <2>9. HandlerOK(w'[p], drawn', owner', granted', tunnels', epoch')
      BY <1>0, <2>2, <2>6
    <2> QED BY <1>0, <1>2, <2>2, <2>3, <2>7, <2>8, <2>9, StepKeeps
  <1> QED BY <1>4, <1>5 DEF GetTunnel

(* issuePEAPContinue: the handler goes on with the next challenge of its   *)
(* conversation, perhaps with AAA's accept.                                *)
LEMMA ContinueKeeps ==
  ASSUME EapInv, scene' = scene, NEW p \in Workers, w[p].pc = "drive",
         NEW next \in Challenge, next.root = w[p].rec.root, next.client = w[p].rec.client,
         Continue(p, next), granted' \in [States -> Grant \cup {NoRec}],
         \A t \in States : t # w[p].rec.root => granted'[t] = granted[t],
         next.step = "finish" <=> granted'[next.root] # NoRec,
         next.step = "finish" => next.reply = granted'[next.root].user,
         Timely(next, tunnels, granted', epoch),
         UNCHANGED <<entries, tunnels, owner, accepts, epoch>>
  PROVE  EapInv'
  <1> DEFINE s == drawn + 1
             x == [w[p] EXCEPT !.pc = "issue", !.new = s, !.next = next]
  <1>0. /\ EapTypeOK /\ drawn \in Nat /\ drawn \in 0..MaxIssued /\ scene \in Scenes
        /\ w \in [Workers -> Handler]
    BY DEF EapInv, EapTypeOK
  <1>1. /\ s \in States /\ s \in 0..MaxIssued /\ drawn' = s /\ w' = [w EXCEPT ![p] = x]
        /\ drawn <= s /\ s \in Nat
    <2>1. s \in States /\ s \in 0..MaxIssued /\ drawn' = s /\ drawn <= s /\ s \in Nat
      BY <1>0, EapAssumption DEF Continue, States
    <2>2. w' = [w EXCEPT ![p].pc = "issue", ![p].new = s, ![p].next = next]
      BY DEF Continue
    <2> HIDE DEF s
    <2>3. w' = [w EXCEPT ![p] = x]
      BY <1>0, <2>2
    <2> QED BY <2>1, <2>3
  <1>2. /\ w[p] \in Handler /\ HandlerOK(w[p], drawn, owner, granted, tunnels, epoch)
        /\ Hand(w[p]) = w[p].rec /\ w[p].rec # NoRec /\ w[p].rec \in Challenge
        /\ w[p].rec.root \in States /\ w[p].rec.root <= drawn
    BY HandFacts
  <1>3. Has(w[p], w[p].rec.root)
    BY <1>2 DEF Has
  <1> HIDE DEF s
  <1>4. x \in Handler /\ x.pc = "issue" /\ x.new = s /\ x.next = next /\ x.rec = w[p].rec
    BY <1>1, <1>2 DEF Handler
  <1>5. w'[p] = x /\ w' \in [Workers -> Handler] /\ \A q \in Workers : q # p => w'[q] = w[q]
    BY <1>0, <1>1, <1>4
  <1> HIDE DEF x
  <1>6. next # NoRec
    BY EapAssumption
  <1>7. Shape(x) /\ Hand(x) = next
    BY <1>1, <1>4, <1>6 DEF Shape, Hand
  <1>8. Genuine(next, s, owner, granted')
    <2>1. w[p].rec.client = owner[w[p].rec.root]
      BY <1>2 DEF HandlerOK, Genuine
    <2>2. next.root <= s
      BY <1>0, <1>1, <1>2 DEF States
    <2> QED BY <2>1, <2>2 DEF Genuine
  <1>9. HandlerOK(w'[p], drawn', owner', granted', tunnels', epoch')
    BY <1>1, <1>4, <1>5, <1>7, <1>8 DEF HandlerOK
  <1>10. EapTypeOK'
    BY <1>0, <1>1, <1>5 DEF EapTypeOK
  <1>11. Capacity'
    BY LessKeepsCapacity
  <1>12. \A t \in States : Has(w'[p], t) => Has(w[p], t) /\ w[p].pc # "delete"
    BY <1>2, <1>5, <1>7 DEF Has
  <1>13. \A t \in States : ~Has(w[p], t) => Untouched(t)
    BY <1>3 DEF Untouched
  <1>14. \A t \in States : t > drawn' => granted'[t] = granted[t]
    BY <1>0, <1>1, <1>2 DEF States
  <1>15. \A t \in States : accepts[t] # {} => granted'[t] = granted[t]
    BY <1>3 DEF EapInv, Ended
  <1> QED BY <1>1, <1>5, <1>9, <1>10, <1>11, <1>12, <1>13, <1>14, <1>15, StepKeeps

(* The handler sends an Access-Accept and leaves: the first of its         *)
(* conversation and the last.                                              *)
LEMMA AcceptKeeps ==
  ASSUME EapInv, scene' = scene, NEW p \in Workers, w[p].pc \in {"continue", "drive"},
         NEW u \in Users \cup {NoRec}, NEW since \in Nat, Accept(p, u, since),
         granted[w[p].rec.root] # NoRec => u = granted[w[p].rec.root].user,
         since = w[p].taken,
         NEW x \in {Idle, [Idle EXCEPT !.pc = "delete", !.rec = w[p].rec]},
         w' = [w EXCEPT ![p] = x],
         UNCHANGED <<entries, tunnels, drawn, owner, granted, epoch>>
  PROVE  EapInv'
  <1> DEFINE t == w[p].rec.root
             a == [state |-> w[p].ask, client |-> w[p].client, user |-> u,
                   granted |-> since, taken |-> w[p].taken]
  <1>0. /\ EapTypeOK /\ HandlersOK /\ StoreOK /\ OnePlace /\ Ended /\ Capacity /\ AcceptIsEarned
        /\ w \in [Workers -> Handler] /\ accepts \in [States -> SUBSET Earned]
    BY DEF EapInv, EapTypeOK
  <1>1. /\ w[p] \in Handler /\ HandlerOK(w[p], drawn, owner, granted, tunnels, epoch)
        /\ Hand(w[p]) = w[p].rec /\ w[p].rec \in Challenge /\ t \in States /\ t <= drawn
        /\ w[p].rec # NoRec
    BY HandFacts
  <1>2. w[p].client = owner[t] /\ w[p].client \in Clients
    BY <1>1 DEF HandlerOK, Shape, Genuine, Challenge
  <1>3. a \in Earned
    BY <1>1, <1>2 DEF Earned, Handler
  <1>4. Has(w[p], t)
    BY <1>1 DEF Has
  <1>5. accepts[t] = {}
    BY <1>0, <1>1, <1>4 DEF Ended
  <1>6. accepts' = [accepts EXCEPT ![t] = accepts[t] \cup {a}]
    BY DEF Accept
  <1>7. a.client = owner[t] /\ (granted[t] # NoRec => a.user = granted[t].user)
        /\ a.granted = a.taken
    BY <1>2
  <1> HIDE DEF a, t
  <1>8. /\ accepts' \in [States -> SUBSET Earned] /\ accepts'[t] = {a}
        /\ \A z \in States : z # t => accepts'[z] = accepts[z]
    BY <1>0, <1>1, <1>3, <1>5, <1>6
  <1>9. /\ x \in Handler /\ x.pc \in {"idle", "delete"} /\ Hand(x) \in {w[p].rec, NoRec}
        /\ HandlerOK(x, drawn, owner, granted, tunnels, epoch)
        /\ Hand(x) # NoRec => x.pc = "delete"
    <2>1. CASE x = Idle
      BY <2>1, IdleOK DEF Idle
    <2>2. CASE x = [Idle EXCEPT !.pc = "delete", !.rec = w[p].rec]
      <3>1. Genuine(w[p].rec, drawn, owner, granted) /\ Timely(w[p].rec, tunnels, granted, epoch)
        BY <1>1 DEF HandlerOK
      <3> QED BY <1>1, <2>2, <3>1, LeavingOK
    <2> QED BY <2>1, <2>2
  <1>10. w'[p] = x /\ w' \in [Workers -> Handler] /\ \A q \in Workers : q # p => w'[q] = w[q]
    BY <1>0, <1>9
  <1>11. EapTypeOK'
    BY <1>0, <1>8, <1>10 DEF EapTypeOK
  <1>12. HandlersOK' /\ StoreOK'
    BY <1>0, <1>9, <1>10 DEF HandlersOK, StoreOK
  <1>13. \A z \in States : Has(w'[p], z) => z = t /\ w'[p].pc = "delete"
    BY <1>1, <1>9, <1>10 DEF Has, t
  <1>14. OnePlace'
    <2>1. \A q \in Workers, z \in States : Has(w'[q], z) => Has(w[q], z)
      BY <1>4, <1>10, <1>13
    <2> QED BY <1>0, <2>1 DEF OnePlace
  <1>15. Ended'
    <2>1. \A s \in States : ~Waits(entries[s], t)
      BY <1>0, <1>1, <1>4 DEF OnePlace
    <2>2. \A q \in Workers : Has(w'[q], t) => q = p
      BY <1>0, <1>1, <1>4, <1>10 DEF OnePlace
    <2>3. ~(t > drawn)
      BY <1>0, <1>1 DEF EapTypeOK, States
    <2>4. ASSUME NEW z \in States
          PROVE  /\ z > drawn' => granted'[z] = NoRec /\ accepts'[z] = {}
                 /\ accepts'[z] # {} =>
                      /\ \A s \in States : ~Waits(entries'[s], z)
                      /\ \A q \in Workers : Has(w'[q], z) => w'[q].pc = "delete"
      <3>1. CASE z = t
        BY <1>10, <1>13, <2>1, <2>2, <2>3, <3>1
      <3>2. CASE z # t
        BY <1>0, <1>8, <1>10, <1>13, <3>2 DEF Ended
      <3> QED BY <3>1, <3>2
    <2> QED BY <2>4 DEF Ended
  <1>16. AcceptIsEarned'
    <2>1. Cardinality({a}) <= 1
      <3>1. \A y, z \in {a} : y = z
        OBVIOUS
      <3>2. Cardinality({a}) \in {0, 1}
        BY <3>1, AtMostOne
      <3> QED BY <3>2
    <2> QED BY <1>0, <1>7, <1>8, <2>1 DEF AcceptIsEarned
  <1>17. Capacity'
    BY LessKeepsCapacity
  <1> QED BY <1>11, <1>12, <1>14, <1>15, <1>16, <1>17 DEF EapInv

(* handleEAPContinuation.                                                  *)
LEMMA ContinuationSteps ==
  ASSUME EapInv, scene' = scene, NEW p \in Workers, HandleEAPContinuation(p)
  PROVE  EapInv'
  <1>0. /\ w[p].pc = "continue" /\ UNCHANGED <<entries, tunnels, granted, epoch>>
        /\ EapTypeOK
    BY DEF HandleEAPContinuation, EapInv
  <1>1. /\ Hand(w[p]) = w[p].rec /\ w[p].rec \in Challenge
        /\ w[p] \in Handler /\ HandlerOK(w[p], drawn, owner, granted, tunnels, epoch)
        /\ w[p].rec # NoRec
    BY <1>0, HandFacts
  <1>2. w[p].client \in Clients /\ Genuine(w[p].rec, drawn, owner, granted)
    BY <1>0, <1>1 DEF HandlerOK, Shape, Challenge
  <1>3. ASSUME NEW u \in Users \cup {NoRec}, NEW peapAllowed \in BOOLEAN,
               StartFromIdentity(p, w[p].client, u, peapAllowed), UNCHANGED accepts
        PROVE  EapInv'
    <2>1. PICK c \in Clients : c = w[p].client
      BY <1>2
    <2> QED BY <1>0, <1>3, <2>1, BeginKeeps
  <1>4. CASE w[p].rec.step = "md5" /\ Accept(p, w[p].rec.user, w[p].taken) /\ Reject(p)
             /\ UNCHANGED <<drawn, owner>>
    <2>1. w[p].rec.user \in Users \cup {NoRec} /\ w[p].taken \in Nat
      BY <1>1 DEF Challenge, Handler
    <2>2. granted[w[p].rec.root] = NoRec
      BY <1>2, <1>4 DEF Genuine
    <2>3. w' = [w EXCEPT ![p] = Idle]
      BY <1>4 DEF Reject
    <2> QED BY <1>0, <1>4, <2>1, <2>2, <2>3, AcceptKeeps
  <1>5. CASE Leave(p, w[p].rec) /\ UNCHANGED <<drawn, owner, accepts>>
    <2>1. Capacity'
      BY <1>0, LessKeepsCapacity
    <2>2. /\ tunnels' \in [States -> Tunnel \cup {NoRec}]
          /\ entries' \in [States -> Challenge \cup {NoRec}]
      BY <1>0 DEF EapTypeOK
    <2> QED BY <1>0, <1>1, <1>5, <2>1, <2>2, LeaveKeeps
  <1> QED BY <1>3, <1>4, <1>5 DEF HandleEAPContinuation

(* handlePEAP and handlePEAPInner after Get.                               *)
LEMMA DriveSteps ==
  ASSUME EapInv, scene' = scene, NEW p \in Workers, Drive(p)
  PROVE  EapInv'
  <1> DEFINE r == w[p].rec
  <1>0. /\ w[p].pc = "drive" /\ UNCHANGED <<entries, tunnels, owner, epoch>>
        /\ EapTypeOK /\ granted \in [States -> Grant \cup {NoRec}] /\ epoch \in Nat
        /\ tunnels' \in [States -> Tunnel \cup {NoRec}]
        /\ entries' \in [States -> Challenge \cup {NoRec}]
    BY DEF Drive, EapInv, EapTypeOK
  <1>1. /\ Hand(w[p]) = r /\ r \in Challenge /\ r # NoRec /\ r.root \in States
        /\ w[p] \in Handler /\ HandlerOK(w[p], drawn, owner, granted, tunnels, epoch)
    BY <1>0, HandFacts
  <1>2. /\ Genuine(r, drawn, owner, granted) /\ Timely(r, tunnels, granted, epoch)
        /\ Peap(r.step)
    BY <1>0, <1>1 DEF HandlerOK, Shape
  <1>3. ASSUME Continue(p, r), UNCHANGED <<granted, accepts>>
        PROVE  EapInv'
    <2>1. /\ r.step = "finish" <=> granted[r.root] # NoRec
          /\ r.step = "finish" => r.reply = granted[r.root].user
      BY <1>2 DEF Genuine
    <2>2. PICK next \in Challenge : next = r
      BY <1>1
    <2> QED BY <1>0, <1>2, <1>3, <2>1, <2>2, ContinueKeeps
  <1>4. ASSUME r.step # "finish", NEW step \in Steps, step # "finish",
               Continue(p, [r EXCEPT !.step = step]), UNCHANGED <<granted, accepts>>
        PROVE  EapInv'
    <2>1. /\ [r EXCEPT !.step = step] \in Challenge /\ [r EXCEPT !.step = step].step = step
          /\ [r EXCEPT !.step = step].root = r.root /\ [r EXCEPT !.step = step].client = r.client
      BY <1>1 DEF Challenge
    <2>2. PICK next \in Challenge : next = [r EXCEPT !.step = step]
      BY <2>1
    <2>3. /\ next.step = step /\ next.root = r.root /\ next.client = r.client
          /\ Continue(p, next)
      BY <1>4, <2>1, <2>2
    <2>4. granted[r.root] = NoRec
      BY <1>2, <1>4 DEF Genuine
    <2>5. Timely(next, tunnels, granted, epoch)
      BY <1>4, <2>3 DEF Timely
    <2> HIDE DEF r
    <2>6. r = w[p].rec
      BY DEF r
    <2> QED BY <1>0, <1>4, <2>3, <2>4, <2>5, <2>6, ContinueKeeps
  <1>5. ASSUME r.step = "mschap", NEW u \in Users, UNCHANGED accepts,
               granted' = [granted EXCEPT ![r.root] = [user |-> u, epoch |-> epoch]],
               Continue(p, [r EXCEPT !.step = "finish", !.reply = u])
        PROVE  EapInv'
    <2> DEFINE g == [user |-> u, epoch |-> epoch]
    <2>1. g \in Grant /\ g.user = u /\ g.epoch = epoch
      BY <1>0 DEF Grant
    <2>2. g # NoRec
      BY <2>1, EapAssumption
    <2>3. /\ [r EXCEPT !.step = "finish", !.reply = u] \in Challenge
          /\ [r EXCEPT !.step = "finish", !.reply = u].step = "finish"
          /\ [r EXCEPT !.step = "finish", !.reply = u].reply = u
          /\ [r EXCEPT !.step = "finish", !.reply = u].root = r.root
          /\ [r EXCEPT !.step = "finish", !.reply = u].client = r.client
      BY <1>1 DEF Challenge, Steps
    <2>4. PICK next \in Challenge : next = [r EXCEPT !.step = "finish", !.reply = u]
      BY <2>3
    <2>5. /\ next.step = "finish" /\ next.reply = u /\ next.root = r.root
          /\ next.client = r.client /\ Continue(p, next)
      BY <1>5, <2>3, <2>4
    <2> HIDE DEF g
    <2>6. /\ granted' \in [States -> Grant \cup {NoRec}] /\ granted'[r.root] = g
          /\ \A t \in States : t # r.root => granted'[t] = granted[t]
      BY <1>0, <1>1, <1>5, <2>1 DEF g
    <2>7. Timely(next, tunnels, granted', epoch)
      BY <2>1, <2>5, <2>6 DEF Timely
    <2> HIDE DEF r
    <2>8. r = w[p].rec /\ accepts' = accepts
      BY <1>5 DEF r
    <2> QED BY <1>0, <2>1, <2>2, <2>5, <2>6, <2>7, <2>8, ContinueKeeps
  <1>6. ASSUME r.step = "finish", Accept(p, r.reply, granted[r.root].epoch), Leave(p, r),
               UNCHANGED <<drawn, granted>>
        PROVE  EapInv'
    <2>1. /\ granted[r.root] \in Grant /\ r.reply = granted[r.root].user
          /\ granted[r.root].epoch = w[p].taken
      BY <1>0, <1>1, <1>2, <1>6 DEF Genuine, HandlerOK
    <2>2. r.reply \in Users \cup {NoRec} /\ granted[r.root].epoch \in Nat
      BY <1>1, <2>1 DEF Challenge, Grant
    <2>3. w' = [w EXCEPT ![p] = [Idle EXCEPT !.pc = "delete", !.rec = w[p].rec]]
      BY <1>2, <1>6 DEF Leave
    <2>4. PICK x \in {Idle, [Idle EXCEPT !.pc = "delete", !.rec = w[p].rec]} :
            w' = [w EXCEPT ![p] = x]
      BY <2>3
    <2> QED BY <1>0, <1>6, <2>1, <2>2, <2>4, AcceptKeeps
  <1>7. ASSUME Leave(p, r), UNCHANGED <<drawn, granted, accepts>>
        PROVE  EapInv'
    <2>1. Capacity'
      BY <1>0, LessKeepsCapacity
    <2> QED BY <1>0, <1>1, <1>7, <2>1, LeaveKeeps
  <1>8. /\ {"handshake", "inner", "mschap"} \subseteq Steps
        /\ "finish" \notin {"start", "handshake", "inner", "mschap"}
    BY DEF Steps
  <1> QED BY <1>3, <1>4, <1>5, <1>6, <1>7, <1>8 DEF Drive

(* issuePEAPStart registers the tunnel.                                    *)
LEMMA PutSteps ==
  ASSUME EapInv, scene' = scene, NEW p \in Workers, PutTunnel(p)
  PROVE  EapInv'
  <1> DEFINE s == w[p].next.root
             x == [w[p] EXCEPT !.pc = "issue"]
  <1>0. /\ EapTypeOK /\ Capacity /\ w[p].pc = "put" /\ w \in [Workers -> Handler]
        /\ tunnels \in [States -> Tunnel \cup {NoRec}] /\ drawn \in Nat
        /\ UNCHANGED <<entries, drawn, owner, granted, accepts, epoch>>
    BY DEF EapInv, EapTypeOK, PutTunnel
  <1>1. /\ w[p] \in Handler /\ HandlerOK(w[p], drawn, owner, granted, tunnels, epoch)
        /\ Hand(w[p]) = w[p].next /\ w[p].next \in Challenge /\ w[p].next # NoRec /\ s \in States
    BY <1>0, HandFacts
  <1>2. w[p].rec = NoRec /\ w[p].next.step = "start" /\ w[p].new \in States
    BY <1>0, <1>1 DEF HandlerOK, Shape
  <1>3. /\ Expired(tunnels) \in [States -> Tunnel \cup {NoRec}]
        /\ \A t \in States : Expired(tunnels)[t] # NoRec => Expired(tunnels)[t] = tunnels[t]
        /\ {t \in States : Expired(tunnels)[t] # NoRec} = Live(tunnels)
    BY <1>0, ExpiredLess
  <1>4. Has(w[p], s)
    BY <1>1 DEF Has
  <1>5. CASE PutOK
    <2>1. tunnels' = [Expired(tunnels) EXCEPT ![s] = NewTunnel]
          /\ w' = [w EXCEPT ![p].pc = "issue"] /\ NewTunnel \in Tunnel
      BY <1>5 DEF PutTunnel, NewTunnel, Tunnel
    <2>2. /\ tunnels' \in [States -> Tunnel \cup {NoRec}]
          /\ \A t \in States : t # s => tunnels'[t] = Expired(tunnels)[t]
      BY <1>1, <1>3, <2>1
    <2>3. Capacity'
      <3>1. {t \in States : tunnels'[t] # NoRec} \subseteq Live(tunnels) \cup {s}
            /\ Live(tunnels) \cup {s} \subseteq States
        BY <1>1, <1>3, <2>2 DEF Live
      <3>2. /\ Cardinality(Live(tunnels) \cup {s}) <= Cardinality(Live(tunnels)) + 1
            /\ Cardinality(Live(tunnels)) \in Nat /\ Cardinality(Live(tunnels) \cup {s}) \in Nat
        BY <1>1, OneMoreState DEF Live
      <3> DEFINE Open == {t \in States : tunnels'[t] # NoRec}
      <3>3. Cardinality(Open) <= Cardinality(Live(tunnels) \cup {s}) /\ Cardinality(Open) \in Nat
        BY <3>1, StatesCounted
      <3> HIDE DEF Open
      <3>4. Cardinality(Open) <= TunnelCap
        BY <1>5, <3>2, <3>3, EapAssumption DEF PutOK
      <3> QED BY <1>0, <3>4 DEF Capacity, Open, Live
    <2>4. x \in Handler /\ x.pc = "issue" /\ x.rec = NoRec /\ x.next = w[p].next /\ x.new = w[p].new
      BY <1>1, <1>2 DEF Handler
    <2>5. w'[p] = x /\ w' \in [Workers -> Handler] /\ \A q \in Workers : q # p => w'[q] = w[q]
      BY <1>0, <2>1, <2>4
    <2> HIDE DEF x
    <2>6. EapTypeOK'
      BY <1>0, <2>2, <2>5 DEF EapTypeOK
    <2>7. Shape(x) /\ Hand(x) = w[p].next
      BY <1>1, <1>2, <2>4 DEF Shape, Hand
    <2>8. HandlerOK(x, drawn, owner, granted, tunnels', epoch)
      <3>1. Genuine(w[p].next, drawn, owner, granted) /\ Timely(w[p].next, tunnels', granted, epoch)
        BY <1>1, <1>2 DEF HandlerOK, Timely
      <3> QED BY <2>4, <2>7, <3>1 DEF HandlerOK
    <2>9. HandlerOK(w'[p], drawn', owner', granted', tunnels', epoch')
      BY <1>0, <2>5, <2>8
    <2>10. \A t \in States : Has(w'[p], t) => Has(w[p], t) /\ w[p].pc # "delete"
      BY <1>0, <1>1, <2>5, <2>7 DEF Has
    <2>11. \A t \in States : ~Has(w[p], t) => Untouched(t)
      BY <1>0, <1>3, <1>4, <2>2 DEF Untouched
    <2> QED BY <1>0, <2>3, <2>5, <2>6, <2>9, <2>10, <2>11, StepKeeps
  <1>6. CASE ~PutOK
    <2>1. tunnels' = Expired(tunnels) /\ w' = [w EXCEPT ![p] = Idle]
      BY <1>6 DEF PutTunnel, Reject
    <2>2. Capacity'
      BY <1>0, <1>3, <2>1, LessKeepsCapacity
    <2>3. w'[p] = Idle /\ w' \in [Workers -> Handler] /\ \A q \in Workers : q # p => w'[q] = w[q]
      BY <1>0, <2>1, IdleOK
    <2>4. EapTypeOK'
      BY <1>0, <1>3, <2>1, <2>3 DEF EapTypeOK
    <2>5. \A t \in States : Untouched(t)
      BY <1>0, <1>3, <2>1 DEF Untouched
    <2>6. HandlerOK(w'[p], drawn', owner', granted', tunnels', epoch') /\ \A t : ~Has(w'[p], t)
      BY <2>3, IdleOK
    <2> QED BY <1>0, <2>2, <2>3, <2>4, <2>5, <2>6, StepKeeps
  <1> QED BY <1>5, <1>6

(* IssueChallenge: the store gets what the handler held, or has no room.   *)
LEMMA IssueSteps ==
  ASSUME EapInv, scene' = scene, NEW p \in Workers, Issue(p)
  PROVE  EapInv'
  <1> DEFINE s == w[p].new
             kept == Expired(entries)
  <1>0. /\ EapTypeOK /\ Capacity /\ w[p].pc = "issue" /\ w \in [Workers -> Handler]
        /\ entries \in [States -> Challenge \cup {NoRec}] /\ drawn \in Nat
        /\ UNCHANGED <<tunnels, drawn, owner, granted, accepts, epoch>>
    BY DEF EapInv, EapTypeOK, Issue
  <1>1. /\ HandlerOK(w[p], drawn, owner, granted, tunnels, epoch)
        /\ Hand(w[p]) = w[p].next /\ w[p].next \in Challenge /\ w[p].next # NoRec
    BY <1>0, HandFacts
  <1>2. s \in States
    BY <1>0, <1>1 DEF HandlerOK, Shape
  <1>3. /\ kept \in [States -> Challenge \cup {NoRec}]
        /\ \A z \in States : kept[z] # NoRec => kept[z] = entries[z]
        /\ Live(kept) = Live(entries)
    BY <1>0, ExpiredLess
  <1>4. CASE IssueOK
    <2>1. entries' = [kept EXCEPT ![s] = w[p].next] /\ w' = [w EXCEPT ![p] = Idle]
      BY <1>4 DEF Issue
    <2> HIDE DEF kept
    <2>2. /\ entries' \in [States -> Challenge \cup {NoRec}] /\ entries'[s] = w[p].next
          /\ \A z \in States : z # s => entries'[z] = kept[z]
      BY <1>1, <1>2, <1>3, <2>1
    <2>3. Capacity'
      <3>1. Live(entries') \subseteq Live(entries) \cup {s} /\ Live(entries) \cup {s} \subseteq States
        <4>1. Live(entries') \subseteq Live(kept) \cup {s}
          BY <2>2 DEF Live
        <4> QED BY <1>2, <1>3, <4>1 DEF Live
      <3>2. /\ Cardinality(Live(entries) \cup {s}) <= Cardinality(Live(entries)) + 1
            /\ Cardinality(Live(entries)) \in Nat /\ Cardinality(Live(entries) \cup {s}) \in Nat
        BY <1>2, OneMoreState DEF Live
      <3>3. Cardinality(Live(entries')) <= Cardinality(Live(entries) \cup {s})
            /\ Cardinality(Live(entries')) \in Nat
        BY <3>1, StatesCounted
      <3>4. Cardinality(Live(entries')) <= MaxEntries
        BY <1>4, <3>2, <3>3, EapAssumption DEF IssueOK
      <3> QED BY <1>0, <3>4 DEF Capacity, Live
    <2>4. w'[p] = Idle /\ w' \in [Workers -> Handler] /\ \A q \in Workers : q # p => w'[q] = w[q]
      BY <1>0, <2>1, IdleOK
    <2>5. EapTypeOK'
      BY <1>0, <2>2, <2>4 DEF EapTypeOK
    <2>6. \A t \in States : Untouched(t)
      BY <1>0 DEF Untouched
    <2>7. /\ HandlerOK(w'[p], drawn', owner', granted', tunnels', epoch')
          /\ Hand(w'[p]) = NoRec /\ \A t : ~Has(w'[p], t)
      BY <2>4, IdleOK
    <2>8. \A z \in States : entries'[z] # NoRec =>
            entries'[z] = entries[z] \/ (entries'[z] = w[p].next /\ z = w[p].new)
      BY <1>3, <2>2
    <2> QED BY <1>0, <2>3, <2>4, <2>5, <2>6, <2>7, <2>8, StepKeeps
  <1>5. CASE ~IssueOK
    <2>1. entries' = kept /\ Leave(p, w[p].next)
      BY <1>5 DEF Issue
    <2> HIDE DEF kept
    <2>2. /\ entries' \in [States -> Challenge \cup {NoRec}]
          /\ \A z \in States : entries'[z] # NoRec => entries'[z] = entries[z]
          /\ tunnels' \in [States -> Tunnel \cup {NoRec}]
      BY <1>0, <1>3, <2>1 DEF EapTypeOK
    <2>3. Capacity'
      BY <1>0, <2>2, LessKeepsCapacity
    <2> QED BY <1>0, <1>1, <2>1, <2>2, <2>3, LeaveKeeps
  <1> QED BY <1>4, <1>5

LEMMA DeleteSteps ==
  ASSUME EapInv, scene' = scene, NEW p \in Workers, DeleteTunnel(p)
  PROVE  EapInv'
  <1>0. /\ EapTypeOK /\ w \in [Workers -> Handler] /\ drawn \in Nat
        /\ tunnels \in [States -> Tunnel \cup {NoRec}]
        /\ tunnels' = [tunnels EXCEPT ![w[p].rec.root] = NoRec] /\ w' = [w EXCEPT ![p] = Idle]
        /\ UNCHANGED <<entries, drawn, owner, granted, accepts, epoch>>
    BY DEF EapInv, EapTypeOK, DeleteTunnel
  <1>1. /\ tunnels' \in [States -> Tunnel \cup {NoRec}]
        /\ \A t \in States : tunnels'[t] # NoRec => tunnels[t] # NoRec
    BY <1>0
  <1>2. Capacity'
    BY <1>0, <1>1, LessKeepsCapacity
  <1>3. w'[p] = Idle /\ w' \in [Workers -> Handler] /\ \A q \in Workers : q # p => w'[q] = w[q]
    BY <1>0, IdleOK
  <1>4. EapTypeOK'
    BY <1>0, <1>1, <1>3 DEF EapTypeOK
  <1>5. \A t \in States : Untouched(t)
    BY <1>0, <1>1 DEF Untouched
  <1>6. HandlerOK(w'[p], drawn', owner', granted', tunnels', epoch') /\ \A t : ~Has(w'[p], t)
    BY <1>3, IdleOK
  <1>7. drawn <= drawn' /\ UNCHANGED <<entries, drawn, owner, granted, accepts, epoch>>
    BY <1>0
  <1> QED BY <1>2, <1>3, <1>4, <1>5, <1>6, <1>7, StepKeeps

(* Time passes, a timer fires, a reset wipes a table: nothing is put       *)
(* anywhere, and the epoch moves on only with no tunnel registered.        *)
LEMMA TimeKeeps ==
  ASSUME EapInv, EapTypeOK', Capacity',
         UNCHANGED <<w, drawn, owner, granted, accepts>>,
         \A t \in States : tunnels'[t] # NoRec => tunnels[t] # NoRec /\ epoch' = epoch,
         \A s \in States : entries'[s] # NoRec =>
            /\ entries[s] # NoRec /\ entries'[s].root = entries[s].root
            /\ entries'[s].client = entries[s].client /\ entries'[s].step = entries[s].step
            /\ entries'[s].reply = entries[s].reply
  PROVE  EapInv'
  <1>0. /\ EapTypeOK /\ HandlersOK /\ StoreOK /\ OnePlace /\ Ended /\ AcceptIsEarned
    BY DEF EapInv
  <1>1. \A r \in Challenge : \A since : Timely(r, tunnels, granted, since) =>
                                       Timely(r, tunnels', granted, since)
    BY DEF Timely, Challenge
  <1>2. \A r \in Challenge : Timely(r, tunnels, granted, epoch) =>
                             Timely(r, tunnels', granted, epoch')
    BY DEF Timely, Challenge
  <1>3. HandlersOK'
    <2>1. ASSUME NEW p \in Workers
          PROVE  HandlerOK(w[p], drawn, owner, granted, tunnels', epoch')
      <3>1. /\ HandlerOK(w[p], drawn, owner, granted, tunnels, epoch)
            /\ Hand(w[p]) # NoRec => Hand(w[p]) \in Challenge
            /\ w[p].pc = "continue" => w[p].rec \in Challenge
        BY HandFacts
      <3> QED BY <1>1, <1>2, <3>1 DEF HandlerOK
    <2> QED BY <2>1 DEF HandlersOK
  <1>4. StoreOK'
    <2>1. ASSUME NEW s \in States, entries'[s] # NoRec
          PROVE  /\ Genuine(entries'[s], drawn, owner, granted)
                 /\ Timely(entries'[s], tunnels', granted, epoch')
      <3>1. entries[s] \in Challenge /\ entries'[s] \in Challenge
        BY <1>0, <2>1 DEF EapTypeOK
      <3>2. Genuine(entries[s], drawn, owner, granted) /\ Timely(entries[s], tunnels, granted, epoch)
        BY <1>0, <2>1 DEF StoreOK
      <3>3. Genuine(entries'[s], drawn, owner, granted)
        BY <2>1, <3>2 DEF Genuine
      <3>4. Timely(entries'[s], tunnels, granted, epoch)
        BY <2>1, <3>2 DEF Timely
      <3> QED BY <1>2, <3>1, <3>3, <3>4
    <2> QED BY <2>1 DEF StoreOK
  <1>5. \A s, t \in States : Waits(entries'[s], t) => Waits(entries[s], t)
    BY DEF Waits
  <1>6. OnePlace'
    BY <1>0, <1>5 DEF OnePlace
  <1>7. Ended' /\ AcceptIsEarned'
    BY <1>0, <1>5 DEF Ended, AcceptIsEarned
  <1> QED BY <1>3, <1>4, <1>6, <1>7 DEF EapInv

LEMMA TimeSteps ==
  ASSUME EapInv, scene' = scene,
         \/ \E s \in States : TunnelDue(s) \/ TimerFires(s) \/ ChallengeDue(s)
         \/ ResetChallenges \/ ResetTunnels
  PROVE  EapInv'
  <1>0. /\ EapTypeOK /\ Capacity /\ tunnels \in [States -> Tunnel \cup {NoRec}] /\ epoch \in Nat
        /\ entries \in [States -> Challenge \cup {NoRec}]
        /\ UNCHANGED <<w, drawn, owner, granted, accepts>>
    BY DEF EapInv, EapTypeOK, TunnelDue, TimerFires, ChallengeDue, ResetChallenges, ResetTunnels
  <1>1. ASSUME NEW s \in States, TunnelDue(s)
        PROVE  EapInv'
    <2>1. /\ tunnels' = [tunnels EXCEPT ![s] = [tunnels[s] EXCEPT !.due = TRUE]]
          /\ tunnels[s] \in Tunnel /\ UNCHANGED <<entries, epoch>>
      BY <1>0, <1>1 DEF TunnelDue
    <2>2. [tunnels[s] EXCEPT !.due = TRUE] \in Tunnel
      BY <2>1 DEF Tunnel
    <2>3. /\ tunnels' \in [States -> Tunnel \cup {NoRec}]
          /\ \A t \in States : tunnels'[t] # NoRec => tunnels[t] # NoRec
      BY <1>0, <2>1, <2>2, EapAssumption
    <2>4. EapTypeOK' /\ Capacity'
      BY <1>0, <2>1, <2>3, LessKeepsCapacity DEF EapTypeOK
    <2> QED BY <1>0, <2>1, <2>3, <2>4, TimeKeeps
  <1>2. ASSUME NEW s \in States, TimerFires(s)
        PROVE  EapInv'
    <2>1. tunnels' = Expired(tunnels) /\ UNCHANGED <<entries, epoch>>
      BY <1>2 DEF TimerFires
    <2>2. /\ tunnels' \in [States -> Tunnel \cup {NoRec}]
          /\ \A t \in States : tunnels'[t] # NoRec => tunnels[t] # NoRec
      BY <1>0, <2>1, ExpiredLess
    <2>3. EapTypeOK' /\ Capacity'
      BY <1>0, <2>1, <2>2, LessKeepsCapacity DEF EapTypeOK
    <2> QED BY <1>0, <2>1, <2>2, <2>3, TimeKeeps
  <1>3. ASSUME NEW s \in States, ChallengeDue(s)
        PROVE  EapInv'
    <2> DEFINE r == [entries[s] EXCEPT !.due = TRUE]
    <2>1. /\ entries' = [entries EXCEPT ![s] = r]
          /\ entries[s] \in Challenge /\ entries[s] # NoRec /\ UNCHANGED <<tunnels, epoch>>
      BY <1>0, <1>3 DEF ChallengeDue
    <2>2. /\ r \in Challenge /\ r.root = entries[s].root /\ r.client = entries[s].client
          /\ r.step = entries[s].step /\ r.reply = entries[s].reply /\ r.due = TRUE
      BY <2>1 DEF Challenge
    <2> HIDE DEF r
    <2>3. /\ entries' \in [States -> Challenge \cup {NoRec}] /\ entries'[s] = r
          /\ \A z \in States : z # s => entries'[z] = entries[z]
      BY <1>0, <2>1, <2>2
    <2>4. Capacity'
      <3>1. Live(entries') \subseteq Live(entries) /\ Live(entries) \subseteq States
        BY <2>2, <2>3 DEF Live
      <3>2. /\ Cardinality(Live(entries')) <= Cardinality(Live(entries))
            /\ Cardinality(Live(entries')) \in Nat /\ Cardinality(Live(entries)) \in Nat
        BY <3>1, StatesCounted
      <3>3. Cardinality(Live(entries')) <= MaxEntries
        BY <1>0, <3>2, EapAssumption DEF Capacity
      <3> QED BY <1>0, <2>1, <3>3 DEF Capacity, Live
    <2>5. EapTypeOK'
      BY <1>0, <2>1, <2>3 DEF EapTypeOK
    <2>6. \A z \in States : entries'[z] # NoRec =>
            /\ entries[z] # NoRec /\ entries'[z].root = entries[z].root
            /\ entries'[z].client = entries[z].client /\ entries'[z].step = entries[z].step
            /\ entries'[z].reply = entries[z].reply
      BY <2>1, <2>2, <2>3
    <2>7. \A t \in States : tunnels'[t] # NoRec => tunnels[t] # NoRec /\ epoch' = epoch
      BY <2>1
    <2> QED BY <1>0, <2>4, <2>5, <2>6, <2>7, TimeKeeps
  <1>4. CASE ResetChallenges
    <2>1. entries' = [s \in States |-> NoRec] /\ UNCHANGED <<tunnels, epoch>>
      BY <1>4 DEF ResetChallenges
    <2>2. EapTypeOK' /\ Capacity'
      BY <1>0, <2>1, LessKeepsCapacity DEF EapTypeOK
    <2> QED BY <1>0, <2>1, <2>2, TimeKeeps
  <1>5. CASE ResetTunnels
    <2>1. tunnels' = [s \in States |-> NoRec] /\ UNCHANGED entries /\ epoch' = epoch + 1
      BY <1>5 DEF ResetTunnels
    <2>2. EapTypeOK' /\ Capacity'
      BY <1>0, <2>1, LessKeepsCapacity DEF EapTypeOK
    <2> QED BY <1>0, <2>1, <2>2, TimeKeeps
  <1> QED BY <1>1, <1>2, <1>3, <1>4, <1>5

(* Every conversation is in one place, genuine and timely, in every state. *)
THEOREM EapInductive == EapSpec => []EapInv
  <1>1. EapInv /\ [EapNext]_eapVars => EapInv'
    <2> SUFFICES ASSUME EapInv, [EapNext]_eapVars PROVE EapInv'
      OBVIOUS
    <2>1. CASE UNCHANGED eapVars
      <3>1. EapTypeOK' /\ Capacity'
        BY <2>1, LessKeepsCapacity DEF EapInv, EapTypeOK, eapVars
      <3> QED BY <2>1, <3>1, TimeKeeps DEF eapVars
    <2>2. CASE EapNext
      <3>0. EapStep /\ scene' = scene
        BY <2>2 DEF EapNext
      <3>1. ASSUME NEW p \in Workers, NEW c \in Clients,
                   HandleEAPStart(p, c) \/ \E s \in States : Consume(p, c, s)
            PROVE  EapInv'
        BY <3>0, <3>1, StartSteps, ConsumeSteps
      <3>2. ASSUME NEW p \in Workers, HandlerStep(p)
            PROVE  EapInv'
        BY <3>0, <3>2, ContinuationSteps, GetSteps, DriveSteps, PutSteps, IssueSteps,
           DeleteSteps DEF HandlerStep
      <3> QED BY <3>0, <3>1, <3>2, TimeSteps DEF EapStep
    <2> QED BY <2>1, <2>2
  <1> QED BY <1>1, EapInitial, PTL DEF EapSpec

(* Consume hands a State to one handler: two packets never drive one       *)
(* tunnel, and both tables stay within their limits.                       *)
THEOREM ConversationsHaveOneDriver == EapSpec => []OneDriver
  BY EapInductive, EapInvOneDriver, PTL

(* An Access-Accept is sent once in a conversation, to the client that     *)
(* began it, for the user AAA accepted, and never on a grant from before a *)
(* reset that the handler's State came after.                              *)
THEOREM AcceptsAreEarned == EapSpec => []AcceptIsEarned
  <1>1. EapInv => AcceptIsEarned
    BY DEF EapInv
  <1> QED BY <1>1, EapInductive, PTL

=============================================================================
