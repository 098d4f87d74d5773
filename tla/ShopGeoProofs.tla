---------------------------- MODULE ShopGeoProofs ----------------------------
(***************************************************************************)
(* Proofs about ShopGeo, for any number of shops, types, writers, runs of  *)
(* the reconcile task, and for every failure.                              *)
(***************************************************************************)
EXTENDS ShopGeo, TLAPS

\* A write knows the place its shop leaves and the place it takes.
PlacesKnown ==
  \A w \in Writers :
    /\ writer[w].at \in {"update", "deleteOld"} => writer[w].old \in Places
    /\ writer[w].at \in {"deleteOld", "deleteNew", "list", "add", "commit"} =>
         writer[w].new \in Places

Inv == TypeOK /\ PlacesKnown

WriterType ==
  [at : WriterSteps, shop : Shops, old : Places \cup {Nowhere},
   new : Places \cup {Nowhere}, view : Rows, tx : BOOLEAN]

GeoTyped ==
  /\ geo \in [Types -> Rows]
  /\ \A t \in Types, s \in Shops : geo[t][s] # Nowhere => ShownIn(geo[t][s], t)

(* What Redis's commands do to the sets. *)

LEMMA DeleteTyped ==
  ASSUME GeoTyped, NEW t \in Types, Delete(t)
  PROVE  GeoTyped'
BY DEF GeoTyped, Delete, NoMember, Rows, ShownIn

LEMMA AddTyped ==
  ASSUME GeoTyped, NEW t \in Types, NEW view \in Rows, GeoAdd(t, view)
  PROVE  GeoTyped'
<1>1. ASSUME NEW s \in Shops
      PROVE  /\ geo'[t][s] \in Places \cup {Nowhere}
             /\ geo'[t][s] # Nowhere => ShownIn(geo'[t][s], t)
  BY <1>1 DEF GeoTyped, GeoAdd, Located, ShownIn, Rows
<1>2. geo' \in [Types -> Rows]
  BY <1>1 DEF GeoTyped, GeoAdd, Rows, Located, ShownIn
<1>3. \A u \in Types \ {t} : geo'[u] = geo[u]
  BY DEF GeoTyped, GeoAdd
<1>4. QED
  BY <1>1, <1>2, <1>3, PlacesAssumption DEF GeoTyped, ShownIn

LEMMA InitInv ==
  ASSUME Shops # {}, Types # {}, Init
  PROVE  Inv
<1>1. SomeShop \in Shops /\ SomeType \in Types
  BY DEF SomeShop, SomeType
<1>2. NoMember \in Rows
  BY DEF NoMember, Rows
<1>3. TypeOK
  BY <1>1, <1>2, BoundsAssumption DEF Init, TypeOK, NoMember, NoWrite, NoRun, WriterSteps
<1>4. QED
  BY <1>3 DEF Inv, Init, PlacesKnown, NoWrite

\* The step of one writer, from what it makes of its own record.
LEMMA WriterMoves ==
  ASSUME Inv, NEW w \in Writers, NEW next \in WriterType,
         writer' = [writer EXCEPT ![w] = next],
         next.at \in {"update", "deleteOld"} => next.old \in Places,
         next.at \in {"deleteOld", "deleteNew", "list", "add", "commit"} => next.new \in Places,
         rows' \in Rows, GeoTyped', UNCHANGED run,
         writes' \in 0..MaxWrites, failures' \in 0..MaxFailures
  PROVE  Inv'
<1>1. writer' \in [Writers -> WriterType]
  BY DEF Inv, TypeOK, WriterType
<1>2. TypeOK'
  BY <1>1 DEF Inv, TypeOK, WriterType, GeoTyped
<1>3. \A v \in Writers : writer'[v] = IF v = w THEN next ELSE writer[v]
  BY DEF Inv, TypeOK
<1>4. PlacesKnown'
  BY <1>3 DEF Inv, PlacesKnown
<1>5. QED
  BY <1>2, <1>4 DEF Inv

LEMMA WriterKeeps ==
  ASSUME Inv, Shops # {}, Types # {}, NEW w \in Writers,
         Write(w) \/ WriterStep(w) \/ Abort(w)
  PROVE  Inv'
<1>1. /\ TypeOK /\ GeoTyped /\ writer[w] \in WriterType
      /\ rows \in Rows /\ writes \in 0..MaxWrites /\ failures \in 0..MaxFailures
  BY DEF Inv, TypeOK, GeoTyped, WriterType
<1>2. NoWrite \in WriterType
  BY DEF NoWrite, WriterType, WriterSteps, NoMember, Rows, SomeShop
<1>g. UNCHANGED geo => GeoTyped'
  BY <1>1 DEF GeoTyped
<1>3. ASSUME NEW s \in Shops, BeginUpdate(w, s)
      PROVE  Inv'
  <2> DEFINE next == [at |-> "update", shop |-> s, old |-> rows[s], new |-> Nowhere,
                      view |-> rows, tx |-> TRUE]
  <2>1. next \in WriterType /\ next.old \in Places
    BY <1>1, <1>3 DEF BeginUpdate, WriterType, WriterSteps, Rows
  <2>2. writes' \in 0..MaxWrites
    BY <1>1, <1>3, BoundsAssumption DEF BeginUpdate
  <2>3. QED
    BY <1>1, <1>g, <1>3, <2>1, <2>2, WriterMoves DEF BeginUpdate
<1>4. ASSUME NEW s \in Shops, NEW p \in Places, Save(w, s, p)
      PROVE  Inv'
  <2> DEFINE next == [at |-> "deleteNew", shop |-> s, old |-> Nowhere, new |-> p,
                      view |-> rows', tx |-> FALSE]
  <2>1. rows' \in Rows
    BY <1>1, <1>4 DEF Save, Rows
  <2>2. next \in WriterType
    BY <2>1 DEF WriterType, WriterSteps
  <2>3. writes' \in 0..MaxWrites
    BY <1>1, <1>4, BoundsAssumption DEF Save
  <2>4. QED
    BY <1>1, <1>g, <1>4, <2>1, <2>2, <2>3, WriterMoves DEF Save
<1>5. ASSUME NEW p \in Places, UpdateById(w, p)
      PROVE  Inv'
  <2> DEFINE next == [writer[w] EXCEPT !.at = "deleteOld", !.new = p,
                                       !.view = [@ EXCEPT ![writer[w].shop] = p]]
  <2>1. next \in WriterType /\ next.at = "deleteOld" /\ next.new = p /\ next.old = writer[w].old
    BY <1>1 DEF WriterType, WriterSteps, Rows
  <2>2. writer' = [writer EXCEPT ![w] = next]
    BY <1>1, <1>5 DEF UpdateById, TypeOK, WriterType
  <2>3. writer[w].old \in Places
    BY <1>5 DEF Inv, PlacesKnown, UpdateById
  <2>4. QED
    BY <1>1, <1>g, <1>5, <2>1, <2>2, <2>3, WriterMoves DEF UpdateById
<1>6. ASSUME NEW to \in {"deleteNew", "list", "add", "commit"}, Goto(w, to),
             writer[w].new \in Places, GeoTyped',
             UNCHANGED <<rows, run, writes, failures>>
      PROVE  Inv'
  <2> DEFINE next == [writer[w] EXCEPT !.at = to]
  <2>1. next \in WriterType /\ next.at = to /\ next.new = writer[w].new
    BY <1>1 DEF WriterType, WriterSteps
  <2>2. writer' = [writer EXCEPT ![w] = next]
    BY <1>1, <1>6 DEF Goto, TypeOK
  <2>3. QED
    BY <1>1, <1>6, <2>1, <2>2, WriterMoves
<1>p. writer[w].at \in {"deleteOld", "deleteNew", "list", "add", "commit"} =>
        writer[w].new \in Places
  BY DEF Inv, PlacesKnown
<1>7. CASE DeleteOld(w)
  <2>1. TypeOf[writer[w].old] \in Types
    BY <1>7, PlacesAssumption DEF Inv, PlacesKnown, DeleteOld
  <2>2. GeoTyped'
    BY <1>1, <1>7, <2>1, DeleteTyped DEF DeleteOld
  <2>3. QED
    BY <1>6, <1>7, <1>p, <2>2 DEF DeleteOld
<1>8. CASE DeleteNew(w)
  <2>1. TypeOf[writer[w].new] \in Types
    BY <1>8, <1>p, PlacesAssumption DEF DeleteNew
  <2>2. GeoTyped'
    BY <1>1, <1>8, <2>1, DeleteTyped DEF DeleteNew
  <2>3. QED
    BY <1>6, <1>8, <1>p, <2>2 DEF DeleteNew
<1>9. CASE List(w)
  <2> DEFINE next == [writer[w] EXCEPT !.at = "add", !.view = rows]
  <2>1. next \in WriterType /\ next.at = "add" /\ next.new = writer[w].new
    BY <1>1 DEF WriterType, WriterSteps
  <2>2. writer' = [writer EXCEPT ![w] = next]
    BY <1>1, <1>9 DEF List, TypeOK
  <2>3. QED
    BY <1>1, <1>g, <1>9, <1>p, <2>1, <2>2, WriterMoves DEF List
<1>10. CASE Add(w)
  <2>1. TypeOf[writer[w].new] \in Types /\ writer[w].view \in Rows
    BY <1>1, <1>10, <1>p, PlacesAssumption DEF Add, WriterType
  <2>2. GeoTyped'
    BY <1>1, <1>10, <2>1, AddTyped DEF Add
  <2>3. QED
    BY <1>6, <1>10, <1>p, <2>2 DEF Add
<1>11. CASE Commit(w)
  <2>1. rows' \in Rows
    BY <1>1, <1>11, <1>p DEF Commit, Rows, WriterType
  <2>2. QED
    BY <1>1, <1>2, <1>g, <1>11, <2>1, WriterMoves DEF Commit, End, NoWrite
<1>12. CASE Abort(w)
  <2>1. failures' \in 0..MaxFailures
    BY <1>1, <1>12, BoundsAssumption DEF Abort
  <2>2. QED
    BY <1>1, <1>2, <1>g, <1>12, <2>1, WriterMoves DEF Abort, End, NoWrite
<1>13. QED
  BY <1>3, <1>4, <1>5, <1>7, <1>8, <1>9, <1>10, <1>11, <1>12 DEF Write, WriterStep

LEMMA RunnerKeeps ==
  ASSUME Inv, Shops # {}, Types # {}, NEW r \in Runners, RunStep(r) \/ RunFails(r)
  PROVE  Inv'
<1> DEFINE RunType == [at : {"idle", "delete", "add"}, view : Rows, todo : SUBSET Types,
                       type : Types]
<1>1. /\ TypeOK /\ GeoTyped /\ run[r] \in RunType /\ rows \in Rows
      /\ failures \in 0..MaxFailures
  BY DEF Inv, TypeOK, GeoTyped
<1>2. NoRun \in RunType /\ SomeType \in Types
  BY DEF NoRun, NoMember, Rows, SomeType
<1>g. UNCHANGED geo => GeoTyped'
  BY <1>1 DEF GeoTyped
<1>3. ASSUME NEW next \in RunType, run' = [run EXCEPT ![r] = next], GeoTyped',
             failures' \in 0..MaxFailures, UNCHANGED <<rows, writer, writes>>
      PROVE  Inv'
  <2>1. TypeOK'
    BY <1>1, <1>3 DEF TypeOK, GeoTyped
  <2>2. QED
    BY <1>3, <2>1 DEF Inv, PlacesKnown
<1>4. CASE StartRun(r)
  <2>1. [at |-> "delete", view |-> rows, todo |-> Types, type |-> SomeType] \in RunType
    BY <1>1, <1>2
  <2>2. QED
    BY <1>1, <1>g, <1>3, <1>4, <2>1 DEF StartRun
<1>5. ASSUME NEW t \in Types, DeleteType(r, t)
      PROVE  Inv'
  <2> DEFINE next == [run[r] EXCEPT !.at = "add", !.type = t, !.todo = @ \ {t}]
  <2>1. next \in RunType /\ run' = [run EXCEPT ![r] = next]
    BY <1>1, <1>5 DEF DeleteType, TypeOK
  <2>2. GeoTyped'
    BY <1>1, <1>5, DeleteTyped DEF DeleteType
  <2>3. QED
    BY <1>1, <1>3, <1>5, <2>1, <2>2 DEF DeleteType
<1>6. CASE AddType(r)
  <2> DEFINE next == IF run[r].todo = {} THEN NoRun ELSE [run[r] EXCEPT !.at = "delete"]
  <2>1. next \in RunType /\ run' = [run EXCEPT ![r] = next]
    BY <1>1, <1>2, <1>6 DEF AddType, TypeOK
  <2>2. GeoTyped'
    BY <1>1, <1>6, AddTyped DEF AddType
  <2>3. QED
    BY <1>1, <1>3, <1>6, <2>1, <2>2 DEF AddType
<1>7. CASE RunFails(r)
  <2>1. failures' \in 0..MaxFailures
    BY <1>1, <1>7, BoundsAssumption DEF RunFails
  <2>2. QED
    BY <1>2, <1>g, <1>3, <1>7, <2>1 DEF RunFails
<1>8. QED
  BY <1>4, <1>5, <1>6, <1>7 DEF RunStep

LEMMA StepInv ==
  ASSUME Inv, Shops # {}, Types # {}, [Next]_vars
  PROVE  Inv'
<1>1. CASE UNCHANGED vars
  BY <1>1 DEF Inv, TypeOK, PlacesKnown, vars
<1>2. QED
  BY <1>1, WriterKeeps, RunnerKeeps DEF Next

(***************************************************************************)
(* Type correctness of the GEO sets: whatever writes, runs and failures    *)
(* overlap, a set only holds located shops of its own type.                *)
(***************************************************************************)
THEOREM GeoTypeCorrect ==
  ASSUME Shops # {}, Types # {}
  PROVE  Spec => []TypeOK
<1>1. Init => Inv
  BY InitInv
<1>2. Inv /\ [Next]_vars => Inv'
  BY StepInv
<1>3. Inv => TypeOK
  BY DEF Inv
<1>4. QED
  BY <1>1, <1>2, <1>3, PTL DEF Spec

-----------------------------------------------------------------------------
(* A rebuild from the rows as they are.                                    *)

LEMMA DeleteFaithful ==
  ASSUME Inv, \A t \in Types : Faithful(t), rows' = rows, NEW t \in Types, Delete(t)
  PROVE  \A u \in Types : Faithful(u)'
<1>1. \A u \in Types : geo'[u] = IF u = t THEN NoMember ELSE geo[u]
  BY DEF Delete, Inv, TypeOK
<1> QED BY <1>1 DEF Faithful, Located, NoMember

LEMMA AddFaithful ==
  ASSUME Inv, \A t \in Types : Faithful(t), rows' = rows, NEW t \in Types, GeoAdd(t, rows)
  PROVE  \A u \in Types : Faithful(u)'
<1>1. PICK listed : listed = [s \in Shops |-> IF s \in Located(rows, t) THEN rows[s] ELSE Nowhere]
  OBVIOUS
<1>2. geo[t] = NoMember \/ geo[t] = listed
  BY <1>1 DEF Faithful
<1>3. \A s \in Shops : s \notin Located(rows, t) => geo[t][s] = Nowhere
  BY <1>1, <1>2 DEF NoMember
<1>4. geo'[t] = listed
  <2>1. geo'[t] = [s \in Shops |-> IF s \in Located(rows, t) THEN rows[s] ELSE geo[t][s]]
    BY DEF GeoAdd, Inv, TypeOK
  <2> QED BY <1>1, <1>3, <2>1
<1>5. \A u \in Types : u # t => geo'[u] = geo[u]
  BY DEF GeoAdd, Inv, TypeOK
<1>6. Faithful(t)'
  BY <1>1, <1>4 DEF Faithful, Located
<1>7. \A u \in Types : u # t => Faithful(u)'
  BY <1>5 DEF Faithful, Located, NoMember
<1> QED BY <1>6, <1>7

\* A run that reads the rows as they are, or has, leaves the sets settled.
LEMMA RunSettles ==
  ASSUME Inv, Types # {}, Settled, NEW r \in Runners, RunStep(r) \/ RunFails(r)
  PROVE  Settled'
<1>1. TypeOK /\ rows' = rows /\ writer' = writer
  BY DEF Inv, RunStep, StartRun, DeleteType, AddType, RunFails
<1>2. ASSUME NEW next, run' = [run EXCEPT ![r] = next], next.at # "idle" => next.view = rows,
             \A t \in Types : Faithful(t)'
      PROVE  Settled'
  <2>1. \A q \in Runners : run'[q] = IF q = r THEN next ELSE run[q]
    BY <1>1, <1>2 DEF TypeOK
  <2> QED BY <1>1, <1>2, <2>1 DEF Settled
<1>3. UNCHANGED geo => \A t \in Types : Faithful(t)'
  BY <1>1 DEF Settled, Faithful, Located, NoMember
<1>4. CASE StartRun(r)
  BY <1>2, <1>3, <1>4 DEF StartRun
<1>5. ASSUME NEW t \in Types, DeleteType(r, t)
      PROVE  Settled'
  <2>1. \A u \in Types : Faithful(u)'
    BY <1>1, <1>5, DeleteFaithful DEF DeleteType, Settled
  <2>2. PICK next : next = [run[r] EXCEPT !.at = "add", !.type = t, !.todo = @ \ {t}]
    OBVIOUS
  <2>3. next.view = rows /\ run' = [run EXCEPT ![r] = next]
    BY <1>1, <1>5, <2>2 DEF DeleteType, Settled, TypeOK
  <2> QED BY <1>2, <2>1, <2>3
<1>6. CASE AddType(r)
  <2>1. run[r].view = rows /\ run[r].type \in Types
    BY <1>1, <1>6 DEF AddType, Settled, TypeOK
  <2>2. \A u \in Types : Faithful(u)'
    BY <1>1, <1>6, <2>1, AddFaithful DEF AddType, Settled
  <2>3. PICK next : next = IF run[r].todo = {} THEN NoRun ELSE [run[r] EXCEPT !.at = "delete"]
    OBVIOUS
  <2>4. run' = [run EXCEPT ![r] = next] /\ (next.at # "idle" => next.view = rows)
    BY <1>1, <1>6, <2>1, <2>3 DEF AddType, NoRun, TypeOK
  <2> QED BY <1>2, <2>2, <2>4
<1>7. CASE RunFails(r)
  BY <1>2, <1>3, <1>7 DEF RunFails, NoRun
<1> QED BY <1>4, <1>5, <1>6, <1>7 DEF RunStep

(***************************************************************************)
(* Once the sets say what the rows say, or are missing, and no write is    *)
(* under way, only a write makes them wrong again: runs of the task may    *)
(* delete and refill them, overlap or break off, for any number of them.   *)
(***************************************************************************)
THEOREM WritesAloneUnsettle ==
  ASSUME Shops # {}, Types # {}
  PROVE  Spec => OnlyWritesUnsettle
<1>1. Init => Inv
  BY InitInv
<1>2. Inv /\ [Next]_vars => Inv'
  BY StepInv
<1>3. Inv /\ [Next]_vars => (Settled => Settled' \/ \E w \in Writers : writer'[w].at # "idle")
  <2> SUFFICES ASSUME Inv, [Next]_vars, Settled, \A w \in Writers : writer'[w].at = "idle"
               PROVE  Settled'
    OBVIOUS
  <2>1. ASSUME NEW w \in Writers, Write(w)
        PROVE  FALSE
    <3>1. PICK next : writer' = [writer EXCEPT ![w] = next] /\ next.at # "idle"
      BY <2>1 DEF Write, BeginUpdate, Save
    <3>2. writer'[w] = next
      BY <3>1 DEF Inv, TypeOK
    <3> QED BY <3>1, <3>2
  <2>2. ASSUME NEW w \in Writers, WriterStep(w) \/ Abort(w)
        PROVE  FALSE
    BY <2>2 DEF Settled, WriterStep, Abort, UpdateById, DeleteOld, DeleteNew, List, Add, Commit
  <2>3. CASE UNCHANGED vars
    BY <2>3 DEF vars, Settled, Faithful, Located, NoMember
  <2> QED BY <2>1, <2>2, <2>3, RunSettles DEF Next
<1> QED BY <1>1, <1>2, <1>3, PTL DEF Spec, OnlyWritesUnsettle
=============================================================================
