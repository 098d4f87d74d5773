------------------------------ MODULE ShopGeo -------------------------------
(***************************************************************************)
(* The GEO sets of the shops, one per type, in Redis.  A write of a shop   *)
(* deletes the sets it touches and writes one of them again from what its  *)
(* transaction sees, before it commits; the reconcile task deletes and     *)
(* writes all of them from one list of the rows.  A query takes the set,   *)
(* or MySQL when the key is missing, and is left out.                      *)
(*                                                                         *)
(* A place is what a row says of a shop: its type and its coordinates.     *)
(***************************************************************************)
EXTENDS Integers, FiniteSets

CONSTANTS
  Shops,
  Types,           \* the rows of tb_shop_type; the shops of the model have no others
  Places,          \* what a row can say of where a shop is
  TypeOf,          \* the type of a place
  Unlocated,       \* the places without coordinates: none where the columns are NOT NULL
  Nowhere,         \* no row, or no member of a set
  Writers,         \* request threads that save or update a shop, numbered
  Runners,         \* threads that run the reconcile task
  MaxWrites,       \* bound on the writes started
  MaxFailures      \* bound on the writes and runs that break off

ASSUME PlacesAssumption ==
  /\ TypeOf \in [Places -> Types]
  /\ Unlocated \subseteq Places /\ Nowhere \notin Places

ASSUME BoundsAssumption ==
  /\ Writers \subseteq Nat
  /\ MaxWrites \in Nat /\ MaxFailures \in Nat

VARIABLES
  rows,            \* tb_shop: the committed places
  geo,             \* shop:geo:{typeId}: the place of each member
  writer,
  run,
  writes,
  failures

vars == <<rows, geo, writer, run, writes, failures>>

Rows == [Shops -> Places \cup {Nowhere}]

\* A place that makes its shop a member of the set of type t.
ShownIn(p, t) == p \in Places \ Unlocated /\ TypeOf[p] = t

WriterSteps == {"idle", "update", "deleteOld", "deleteNew", "list", "add", "commit"}

TypeOK ==
  /\ rows \in Rows
  /\ geo \in [Types -> Rows]
  /\ \A t \in Types, s \in Shops : geo[t][s] # Nowhere => ShownIn(geo[t][s], t)
  /\ writer \in [Writers -> [at : WriterSteps, shop : Shops, old : Places \cup {Nowhere},
                             new : Places \cup {Nowhere}, view : Rows, tx : BOOLEAN]]
  /\ run \in [Runners -> [at : {"idle", "delete", "add"}, view : Rows, todo : SUBSET Types,
                          type : Types]]
  /\ writes \in 0..MaxWrites
  /\ failures \in 0..MaxFailures

NoMember == [s \in Shops |-> Nowhere]

\* Mutant: the list of the rows is not cut down to the type.
LocatedAnywhere(view, t) == {s \in Shops : view[s] \in Places \ Unlocated}

\* The members a set of type t gets from a list of rows.
Located(view, t) == {s \in Shops : view[s] # Nowhere /\ ShownIn(view[s], t)}

\* GEOADD overwrites the members it names and keeps the others.
GeoAdd(t, view) ==
  geo' = [geo EXCEPT ![t] = [s \in Shops |-> IF s \in Located(view, t) THEN view[s]
                                              ELSE geo[t][s]]]

Delete(t) == geo' = [geo EXCEPT ![t] = NoMember]

SomeShop == CHOOSE s \in Shops : TRUE
SomeType == CHOOSE t \in Types : TRUE

NoWrite == [at |-> "idle", shop |-> SomeShop, old |-> Nowhere, new |-> Nowhere,
            view |-> NoMember, tx |-> FALSE]
NoRun == [at |-> "idle", view |-> NoMember, todo |-> {}, type |-> SomeType]

Init ==
  /\ rows \in Rows
  /\ geo = [t \in Types |-> NoMember]
  /\ writer = [w \in Writers |-> NoWrite]
  /\ run = [r \in Runners |-> NoRun]
  /\ writes = 0
  /\ failures = 0

-----------------------------------------------------------------------------
(* update, one transaction, and save, an insert that commits by itself.    *)

Goto(w, to) == writer' = [writer EXCEPT ![w].at = to]

\* update reads the old shop: the transaction sees the rows of this moment.
BeginUpdate(w, s) ==
  /\ writer[w].at = "idle" /\ writes < MaxWrites
  /\ rows[s] # Nowhere
  /\ writer' = [writer EXCEPT ![w] = [at |-> "update", shop |-> s, old |-> rows[s],
                                      new |-> Nowhere, view |-> rows, tx |-> TRUE]]
  /\ writes' = writes + 1
  /\ UNCHANGED <<rows, geo, run, failures>>

\* An update holds its row from the write to the end of the transaction.
Locked(s) ==
  \E w \in Writers :
    writer[w].tx /\ writer[w].shop = s /\ writer[w].at \notin {"idle", "update"}

\* updateById leaves a column alone for which the request has no value.
UpdateById(w, p) ==
  LET s == writer[w].shop IN
    /\ writer[w].at = "update"
    /\ ~Locked(s)
    /\ rows[s] \in Unlocated \/ p \notin Unlocated
    /\ writer' = [writer EXCEPT ![w].at = "deleteOld", ![w].new = p,
                                ![w].view[s] = p]
    /\ UNCHANGED <<rows, geo, run, writes, failures>>

Save(w, s, p) ==
  /\ writer[w].at = "idle" /\ writes < MaxWrites
  /\ rows[s] = Nowhere
  /\ rows' = [rows EXCEPT ![s] = p]
  /\ writer' = [writer EXCEPT ![w] = [at |-> "deleteNew", shop |-> s, old |-> Nowhere,
                                      new |-> p, view |-> rows', tx |-> FALSE]]
  /\ writes' = writes + 1
  /\ UNCHANGED <<geo, run, failures>>

DeleteOld(w) ==
  /\ writer[w].at = "deleteOld"
  /\ Delete(TypeOf[writer[w].old])
  /\ Goto(w, "deleteNew")
  /\ UNCHANGED <<rows, run, writes, failures>>

\* A shop without coordinates is in no set.  A transaction has seen the rows it will list.
DeleteNew(w) ==
  /\ writer[w].at = "deleteNew"
  /\ Delete(TypeOf[writer[w].new])
  /\ Goto(w, IF writer[w].new \in Unlocated THEN "commit" ELSE IF writer[w].tx THEN "add" ELSE "list")
  /\ UNCHANGED <<rows, run, writes, failures>>

\* save is no transaction and lists the rows of this moment.
List(w) ==
  /\ writer[w].at = "list"
  /\ writer' = [writer EXCEPT ![w].at = "add", ![w].view = rows]
  /\ UNCHANGED <<rows, geo, run, writes, failures>>

Add(w) ==
  /\ writer[w].at = "add"
  /\ GeoAdd(TypeOf[writer[w].new], writer[w].view)
  /\ Goto(w, "commit")
  /\ UNCHANGED <<rows, run, writes, failures>>

End(w) == writer' = [writer EXCEPT ![w] = NoWrite]

Commit(w) ==
  /\ writer[w].at = "commit"
  /\ rows' = IF writer[w].tx THEN [rows EXCEPT ![writer[w].shop] = writer[w].new] ELSE rows
  /\ End(w)
  /\ UNCHANGED <<geo, run, writes, failures>>

\* A Redis call, or the commit, throws: an update rolls back, a saved shop stays.
Abort(w) ==
  /\ writer[w].at # "idle" /\ failures < MaxFailures
  /\ End(w)
  /\ failures' = failures + 1
  /\ UNCHANGED <<rows, geo, run, writes>>

-----------------------------------------------------------------------------
(* rebuildShopGeo.  RedisReconcile shows that runs may overlap when one    *)
(* outlives its lock.                                                      *)

\* The task does the types of tb_shop_type and those of the shops it lists.
StartRun(r) ==
  /\ run[r].at = "idle"
  /\ run' = [run EXCEPT ![r] = [at |-> "delete", view |-> rows, todo |-> Types,
                                type |-> SomeType]]
  /\ UNCHANGED <<rows, geo, writer, writes, failures>>

\* Mutant: members are added to the set that is there.
KeepType(r, t) ==
  /\ run[r].at = "delete" /\ t \in run[r].todo
  /\ run' = [run EXCEPT ![r].at = "add", ![r].type = t, ![r].todo = @ \ {t}]
  /\ UNCHANGED <<rows, geo, writer, writes, failures>>

DeleteType(r, t) ==
  /\ run[r].at = "delete" /\ t \in run[r].todo
  /\ Delete(t)
  /\ run' = [run EXCEPT ![r].at = "add", ![r].type = t, ![r].todo = @ \ {t}]
  /\ UNCHANGED <<rows, writer, writes, failures>>

\* Mutant: GEOADD XX, which only moves members that are there.
AddTypeXX(r) ==
  /\ run[r].at = "add"
  /\ geo' = [geo EXCEPT ![run[r].type] =
                [s \in Shops |-> IF @[s] # Nowhere /\ s \in Located(run[r].view, run[r].type)
                                 THEN run[r].view[s] ELSE @[s]]]
  /\ run' = [run EXCEPT ![r] = IF run[r].todo = {} THEN NoRun ELSE [@ EXCEPT !.at = "delete"]]
  /\ UNCHANGED <<rows, writer, writes, failures>>

\* Mutant: the rows are not grouped by their type.
AddTypeUngrouped(r) ==
  /\ run[r].at = "add"
  /\ geo' = [geo EXCEPT ![run[r].type] =
                [s \in Shops |-> IF s \in LocatedAnywhere(run[r].view, run[r].type)
                                 THEN run[r].view[s] ELSE @[s]]]
  /\ run' = [run EXCEPT ![r] = IF run[r].todo = {} THEN NoRun ELSE [@ EXCEPT !.at = "delete"]]
  /\ UNCHANGED <<rows, writer, writes, failures>>

AddType(r) ==
  /\ run[r].at = "add"
  /\ GeoAdd(run[r].type, run[r].view)
  /\ run' = [run EXCEPT ![r] = IF run[r].todo = {} THEN NoRun ELSE [@ EXCEPT !.at = "delete"]]
  /\ UNCHANGED <<rows, writer, writes, failures>>

RunFails(r) ==
  /\ run[r].at # "idle" /\ failures < MaxFailures
  /\ run' = [run EXCEPT ![r] = NoRun]
  /\ failures' = failures + 1
  /\ UNCHANGED <<rows, geo, writer, writes>>

-----------------------------------------------------------------------------

WriterStep(w) ==
  \/ \E p \in Places : UpdateById(w, p)
  \/ DeleteOld(w) \/ DeleteNew(w) \/ List(w) \/ Add(w) \/ Commit(w)

\* Threads are alike: the first idle one takes the next write.
Write(w) ==
  /\ \A v \in Writers : v < w => writer[v].at # "idle"
  /\ \E s \in Shops : BeginUpdate(w, s) \/ \E p \in Places : Save(w, s, p)

RunStep(r) == StartRun(r) \/ AddType(r) \/ \E t \in Types : DeleteType(r, t)

Next ==
  \/ \E w \in Writers : Write(w) \/ WriterStep(w) \/ Abort(w)
  \/ \E r \in Runners : RunStep(r) \/ RunFails(r)

Spec == Init /\ [][Next]_vars

(***************************************************************************)
(* Writes end, and the task runs again and again: @Scheduled, with every   *)
(* run taking its lock when no other has it.                               *)
(***************************************************************************)
FairSpec ==
  /\ Spec
  /\ \A w \in Writers : WF_vars(WriterStep(w))
  /\ \A r \in Runners : WF_vars(RunStep(r))

-----------------------------------------------------------------------------

\* The set of type t says what the rows say, or is missing.
Faithful(t) ==
  geo[t] # NoMember => geo[t] = [s \in Shops |-> IF s \in Located(rows, t) THEN rows[s] ELSE Nowhere]

(***************************************************************************)
(* Whatever order writes, rollbacks and runs of the task left the sets in, *)
(* some time after the last write no set names a shop that has moved or a  *)
(* move that was rolled back (update, refreshGeoAfterWrite,                *)
(* rebuildShopGeo).                                                        *)
(***************************************************************************)
GeoConverges == <>[](\A t \in Types : Faithful(t))

\* No write is under way, the runs under way have read the rows as they are, and so say the sets.
Settled ==
  /\ \A w \in Writers : writer[w].at = "idle"
  /\ \A r \in Runners : run[r].at # "idle" => run[r].view = rows
  /\ \A t \in Types : Faithful(t)

(***************************************************************************)
(* ... and stays so: runs of the task that delete and refill the sets,     *)
(* overlap or break off do not make them wrong again, only a write does.   *)
(***************************************************************************)
OnlyWritesUnsettle ==
  [][Settled => Settled' \/ \E w \in Writers : writer'[w].at # "idle"]_vars

(***************************************************************************)
(* ... and no set with shops to show stays missing: the move of a shop     *)
(* deletes the set of its old type and does not write it again.            *)
(***************************************************************************)
GeoRefilled == \A t \in Types : []<>(Located(rows, t) # {} => geo[t] # NoMember)
=============================================================================
