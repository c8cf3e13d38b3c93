-------------------------- MODULE RelocationProofs --------------------------
(***************************************************************************)
(* A relocation never loses the Workspace, for any Runners, any number of  *)
(* relocations and any faults: the home the rows name holds a published    *)
(* image.                                                                  *)
(*                                                                         *)
(* The argument.  An image is removed by a deletion or by an import that   *)
(* starts over.  A deletion is on its way to one Runner only, the source   *)
(* of a relocation that has committed, and it is gone from commands, wire  *)
(* and results before the relocation ends.  An import starts over only     *)
(* where it left no receipt, and the home moves only to a Runner whose     *)
(* import left one.                                                        *)
(***************************************************************************)
EXTENDS Relocation, TLAPS

Kinds     == {"export", "abort", "delete", "reconcile"}
Names     == {"export", "cleanup", "stale", ""}
Images    == {"none", "open", "sealed"}
Links     == {"up", "cut", "closed"}
Slots     == {"", "queued", "source_sealed", "aborting", "aborting_source_sealed",
              "deleting_source", "failed"}
States    == {"none", "queued", "source_sealed", "aborting", "deleting_source", "succeeded", "failed"}
Ended     == {"none", "succeeded", "failed"}
Outcomes  == {"none", "pending", "running", "succeeded", "failed"}
Whats     == {"open", "chunk", "commit", "result", "credit"}
Receipts  == {"export", "abort", "import", "delete", "delete, no capacity"} \X Nat
Sides     == {"up", "late"}
Claims    == {"pending", "sent"}
Recons    == {"none", "pending", "sent"}
Phases    == {"off", "opening", "sending", "waiting"}

Transfers == [type : {"transfer"}, what : Whats, op : Nat, seq : Nat, ok : BOOLEAN]
Results   == [type : {"result"}, kind : Kinds, name : Names, op : Nat, ok : BOOLEAN, full : BOOLEAN]
Orders    == [type : {"command"}, kind : Kinds, name : Names, op : Nat, corr : Runners]
Reports   == [type : {"report"}, image : Images, receipts : SUBSET Receipts]
UpFrames   == Transfers \cup Results \cup Reports
DownFrames == Transfers \cup Orders

Cmds == [kind : Kinds, name : Names, op : Nat, corr : Runners, to : Runners,
         state : Claims]
Queues == SUBSET Cmds
Rows == [home : Runners, failed : BOOLEAN, slot : Slots, effect : Names,
         op : Nat, source : Runners, target : Runners, state : States, operation : Outcomes,
         recon : [Runners -> Recons], cmds : Queues]

Exported == [phase : Phases, op : Nat, name : Names, sent : Nat, credit : Nat]
Imported == [op : Nat, seq : Nat]

Types ==
  /\ db \in Rows /\ link \in [Runners -> Links]
  /\ up \in [Runners -> Seq(UpFrames)] /\ late \in [Runners -> Seq(UpFrames)]
  /\ down \in [Runners -> Seq(DownFrames)]
  /\ routed \in [Runners \X Sides -> Transfers \cup {None}]
  /\ session \in [Runners -> BOOLEAN] /\ busy \in [Runners -> BOOLEAN] /\ doomed \in [Runners -> BOOLEAN]
  /\ exporting \in [Runners -> Exported]
  /\ importing \in [Runners -> Imported]
  /\ image \in [Runners -> Images] /\ made \in [Runners -> Nat]
  /\ receipts \in [Runners -> SUBSET Receipts]
  /\ budget \in [Bounds -> Nat]

(* The rows among themselves: a free slot means an ended relocation, one   *)
(* that commits has moved the home, and a deletion is queued once, for the *)
(* source of the relocation that committed.                                *)
RowInv(d) ==
  /\ d.slot = "" => d.state \in Ended
  /\ d.state # "none" => d.op # 0 /\ d.source # d.target
  /\ d.state = "deleting_source" => d.home = d.target
  /\ \A c \in d.cmds : c.op \in 1..d.op
  /\ \A c \in d.cmds : c.kind = "delete" =>
       c.name = "cleanup" /\ c.op = d.op /\ c.to = d.source /\ d.state = "deleting_source"
  /\ \A c, e \in d.cmds : c.kind = "delete" /\ e.kind = "delete" => c = e

(* Frames speak of relocations that were asked for.                        *)
Within(f, n) == f.type = "transfer" \/ (f.type = "command" /\ f.kind # "reconcile") => f.op \in 1..n
Bounded(q, n) == \A i \in 1..Len(q) : Within(q[i], n)
OpsInv ==
  /\ \A r \in Runners : Bounded(up[r], db.op) /\ Bounded(late[r], db.op) /\ Bounded(down[r], db.op)
  /\ \A h \in Runners \X Sides : routed[h] # None => routed[h].op \in 1..db.op
  /\ \A r \in Runners : exporting[r].phase # "off" => exporting[r].op \in 1..db.op

(* A deletion is in one place: queued, on its way to the source, or        *)
(* answered and not yet recorded.                                          *)
Deletion(f) == f.type \in {"command", "result"} /\ f.kind = "delete"
Has(q) == \E i \in 1..Len(q) : Deletion(q[i])
Lone(q) == \A i, j \in 1..Len(q) : Deletion(q[i]) /\ Deletion(q[j]) => i = j
Pending(d) == \E c \in d.cmds : c.kind = "delete" /\ c.state = "pending"
Deleting(r) == db.state = "deleting_source" /\ r = db.source /\ ~Pending(db)
DelInv ==
  \A r \in Runners :
    /\ Lone(down[r]) /\ Lone(up[r])
    /\ Has(down[r]) => Deleting(r) /\ ~Has(up[r])
    /\ Has(up[r]) => Deleting(r)

(* An import writes where no image is, its receipt vouches for the image,  *)
(* and the home's image is its first one or one with a receipt.            *)
ImportInv ==
  /\ \A r \in Runners : importing[r].op # 0 => image[r] = "none"
  /\ \A r \in Runners : \A n \in Nat : <<"import", n>> \in receipts[r] => made[r] = n /\ image[r] # "none"
HomeInv ==
  /\ image[db.home] # "none"
  /\ made[db.home] # 0 => <<"import", made[db.home]>> \in receipts[db.home]

(* A success the target reports rests on its import's receipt.             *)
Success(f, n) == f.type = "transfer" /\ f.what = "result" /\ f.ok /\ f.op = n
Backed(q, n, held) == \A i \in 1..Len(q) : Success(q[i], n) => <<"import", n>> \in held
BackInv == Backed(up[db.target], db.op, receipts[db.target]) /\ Backed(late[db.target], db.op, receipts[db.target])

RelocationInv == Types /\ RowInv(db) /\ OpsInv /\ DelInv /\ ImportInv /\ HomeInv /\ BackInv

-----------------------------------------------------------------------------
(* Queues.                                                                 *)

(* Receiving the first frame of a queue.                                   *)
LEMMA TailOf ==
  ASSUME NEW S, NEW q \in Seq(S), q # <<>>
  PROVE  /\ Head(q) = q[1] /\ 1 \in 1..Len(q) /\ Head(q) \in S
         /\ Tail(q) \in Seq(S)
         /\ \A i \in 1..Len(Tail(q)) : i + 1 \in 1..Len(q) /\ i + 1 # 1 /\ Tail(q)[i] = q[i + 1]
<1>1. Len(q) \in Nat /\ Len(q) # 0 /\ \A i \in 1..Len(q) : q[i] \in S
  OBVIOUS
<1>2. Tail(q) \in Seq(S) /\ Len(Tail(q)) = Len(q) - 1 /\ Head(q) = q[1]
      /\ \A i \in 1..(Len(q) - 1) : Tail(q)[i] = q[i + 1]
  OBVIOUS
<1>. QED BY <1>1, <1>2

(* Sending frames after those of a queue.                                  *)
LEMMA JoinOf ==
  ASSUME NEW S, NEW q \in Seq(S), NEW p \in Seq(S)
  PROVE  /\ q \o p \in Seq(S)
         /\ \A i \in 1..Len(q \o p) :
              \/ i \in 1..Len(q) /\ (q \o p)[i] = q[i]
              \/ i - Len(q) \in 1..Len(p) /\ (q \o p)[i] = p[i - Len(q)]
<1>1. Len(q) \in Nat /\ Len(p) \in Nat
  OBVIOUS
<1>2. q \o p \in Seq(S) /\ Len(q \o p) = Len(q) + Len(p)
  OBVIOUS
<1>3. \A i \in 1..(Len(q) + Len(p)) : (q \o p)[i] = IF i <= Len(q) THEN q[i] ELSE p[i - Len(q)]
  OBVIOUS
<1>. QED BY <1>1, <1>2, <1>3

(* What is said of every frame of a queue survives receiving, sending and  *)
(* renaming.                                                               *)
LEMMA TailKeeps ==
  ASSUME NEW S, NEW q \in Seq(S), q # <<>>, NEW n, NEW held
  PROVE  /\ Bounded(q, n) => Bounded(Tail(q), n) /\ Within(Head(q), n)
         /\ Backed(q, n, held) => Backed(Tail(q), n, held) /\ (Success(Head(q), n) => <<"import", n>> \in held)
         /\ Lone(q) => Lone(Tail(q))
         /\ Has(Tail(q)) => Has(q)
         /\ Lone(q) /\ Deletion(Head(q)) => ~Has(Tail(q))
         /\ Deletion(Head(q)) => Has(q)
<1>1. /\ Head(q) = q[1] /\ 1 \in 1..Len(q)
      /\ \A i \in 1..Len(Tail(q)) : i + 1 \in 1..Len(q) /\ i + 1 # 1 /\ Tail(q)[i] = q[i + 1]
  BY TailOf
<1>2. Bounded(q, n) => Bounded(Tail(q), n) /\ Within(Head(q), n)
  BY <1>1 DEF Bounded
<1>3. Backed(q, n, held) => Backed(Tail(q), n, held) /\ (Success(Head(q), n) => <<"import", n>> \in held)
  BY <1>1 DEF Backed
<1>4. Lone(q) => Lone(Tail(q))
  <2>. SUFFICES ASSUME Lone(q), NEW i \in 1..Len(Tail(q)), NEW j \in 1..Len(Tail(q)),
                       Deletion(Tail(q)[i]), Deletion(Tail(q)[j])
                PROVE  i = j
    BY DEF Lone
  <2>1. i + 1 = j + 1
    BY <1>1 DEF Lone
  <2>. QED BY <2>1
<1>5. Has(Tail(q)) => Has(q)
  BY <1>1 DEF Has
<1>6. Lone(q) /\ Deletion(Head(q)) => ~Has(Tail(q))
  BY <1>1 DEF Has, Lone
<1>7. Deletion(Head(q)) => Has(q)
  BY <1>1 DEF Has
<1>. QED BY <1>2, <1>3, <1>4, <1>5, <1>6, <1>7

LEMMA JoinKeeps ==
  ASSUME NEW S, NEW q \in Seq(S), NEW p \in Seq(S), NEW n, NEW held
  PROVE  /\ Bounded(q, n) /\ Bounded(p, n) => Bounded(q \o p, n)
         /\ Backed(q, n, held) /\ Backed(p, n, held) => Backed(q \o p, n, held)
         /\ ~Has(p) => (Lone(q) => Lone(q \o p)) /\ (Has(q \o p) => Has(q))
         /\ ~Has(q) => (Lone(p) => Lone(q \o p)) /\ (Has(q \o p) => Has(p))
<1>1. \A i \in 1..Len(q \o p) :
        \/ i \in 1..Len(q) /\ (q \o p)[i] = q[i]
        \/ i - Len(q) \in 1..Len(p) /\ (q \o p)[i] = p[i - Len(q)]
  BY JoinOf
<1>2. Bounded(q, n) /\ Bounded(p, n) => Bounded(q \o p, n)
  BY <1>1 DEF Bounded
<1>3. Backed(q, n, held) /\ Backed(p, n, held) => Backed(q \o p, n, held)
  BY <1>1 DEF Backed
<1>4. ~Has(p) => (Lone(q) => Lone(q \o p)) /\ (Has(q \o p) => Has(q))
  BY <1>1 DEF Has, Lone
<1>5. ~Has(q) => (Has(q \o p) => Has(p))
  BY <1>1 DEF Has
<1>6. ~Has(q) => (Lone(p) => Lone(q \o p))
  <2>. SUFFICES ASSUME ~Has(q), Lone(p), NEW i \in 1..Len(q \o p), NEW j \in 1..Len(q \o p),
                       Deletion((q \o p)[i]), Deletion((q \o p)[j])
                PROVE  i = j
    BY DEF Lone
  <2>1. i - Len(q) = j - Len(q) /\ Len(q) \in Nat
    BY <1>1 DEF Lone, Has
  <2>. QED BY <2>1
<1>. QED BY <1>2, <1>3, <1>4, <1>5, <1>6

LEMMA EmptyKeeps ==
  ASSUME NEW S, NEW n, NEW held
  PROVE  <<>> \in Seq(S) /\ Bounded(<<>>, n) /\ Backed(<<>>, n, held) /\ Lone(<<>>) /\ ~Has(<<>>)
BY DEF Bounded, Backed, Lone, Has

-----------------------------------------------------------------------------
(* The transactions on the rows.                                           *)

Same(d, e) == e.op = d.op /\ e.source = d.source /\ e.target = d.target
NoDeletion(d) == \A c \in d.cmds : c.kind # "delete"

(* A transaction that neither moves the home nor touches a deletion.       *)
Quiet(d, e) ==
  /\ e \in Rows /\ RowInv(e) /\ Same(d, e) /\ e.home = d.home
  /\ e.state = "deleting_source" <=> d.state = "deleting_source"
  /\ \A c \in e.cmds : c.kind = "delete" => c \in d.cmds
(* The one that records a deletion's result: there is none left, or a new  *)
(* one is queued.                                                          *)
Cleaned(d, e) ==
  /\ e \in Rows /\ RowInv(e) /\ Same(d, e) /\ e.home = d.home /\ d.state = "deleting_source"
(* The one that moves the home.                                            *)
Moved(d, e) ==
  /\ e \in Rows /\ RowInv(e) /\ Same(d, e) /\ e.home = d.target
  /\ d.state = "source_sealed" /\ e.state = "deleting_source"

LEMMA RowFields ==
  ASSUME NEW d \in Rows
  PROVE  /\ d.home \in Runners /\ d.failed \in BOOLEAN /\ d.slot \in Slots /\ d.effect \in Names
         /\ d.op \in Nat /\ d.source \in Runners /\ d.target \in Runners /\ d.state \in States
         /\ d.operation \in Outcomes /\ d.cmds \in Queues /\ d.cmds \in SUBSET Cmds
         /\ d.recon \in [Runners -> Recons]
BY DEF Rows, Queues

LEMMA QuietRefl ==
  ASSUME NEW d \in Rows, RowInv(d)
  PROVE  Quiet(d, d)
BY DEF Quiet, Same

-----------------------------------------------------------------------------
(* What a step does to the queues.                                         *)

Kept(q, p, n, held) ==
  /\ Bounded(q, n) => Bounded(p, n)
  /\ Backed(q, n, held) => Backed(p, n, held)
  /\ Lone(q) => Lone(p)
  /\ Has(p) => Has(q)
Flow(q, p, held) == \A s \in Runners : Kept(q[s], p[s], db.op, held[s])

(* A superseded handler reads on, or reads what its connection left.       *)
Left(held) ==
  \A s \in Runners : \/ Kept(late[s], late'[s], db.op, held[s])
                     \/ Kept(up[s], late'[s], db.op, held[s])

LEMMA KeptSame ==
  ASSUME NEW q, NEW n, NEW held
  PROVE  Kept(q, q, n, held)
BY Zenon DEF Kept

LEMMA KeptEmpty ==
  ASSUME NEW q, NEW n, NEW held
  PROVE  Kept(q, <<>>, n, held)
BY EmptyKeeps DEF Kept

LEMMA KeptTail ==
  ASSUME NEW S, NEW q \in Seq(S), q # <<>>, NEW n, NEW held
  PROVE  Kept(q, Tail(q), n, held)
BY TailKeeps, Zenon DEF Kept

LEMMA KeptJoin ==
  ASSUME NEW S, NEW q \in Seq(S), NEW p \in Seq(S), NEW n, NEW held,
         Bounded(p, n), Backed(p, n, held), ~Has(p)
  PROVE  Kept(q, q \o p, n, held)
BY JoinKeeps, Zenon DEF Kept

LEMMA FlowSame ==
  ASSUME NEW q, NEW held
  PROVE  Flow(q, q, held)
BY KeptSame, Zenon DEF Flow

(* One queue changes.                                                      *)
LEMMA FlowAt ==
  ASSUME NEW S, NEW q \in [Runners -> Seq(S)], NEW r \in Runners, NEW p \in Seq(S), NEW held,
         NEW g, g = [q EXCEPT ![r] = p], Kept(q[r], p, db.op, held[r])
  PROVE  g \in [Runners -> Seq(S)] /\ Flow(q, g, held)
<1>1. g \in [Runners -> Seq(S)]
  OBVIOUS
<1>2. \A s \in Runners : (s = r /\ g[s] = p) \/ g[s] = q[s]
  OBVIOUS
<1>. QED BY <1>1, <1>2, KeptSame, Zenon DEF Flow

(* Sequences of one and of two frames.                                     *)
LEMMA OneFrame ==
  ASSUME NEW S, NEW f \in S, NEW n, NEW held
  PROVE  /\ <<f>> \in Seq(S)
         /\ Within(f, n) => Bounded(<<f>>, n)
         /\ (Success(f, n) => <<"import", n>> \in held) => Backed(<<f>>, n, held)
         /\ ~Deletion(f) => ~Has(<<f>>)
         /\ Lone(<<f>>)
<1>1. <<f>> \in Seq(S) /\ Len(<<f>>) = 1 /\ <<f>>[1] = f
  OBVIOUS
<1>2. \A i \in 1..Len(<<f>>) : i = 1 /\ <<f>>[i] = f
  BY <1>1
<1>3. Within(f, n) => Bounded(<<f>>, n)
  BY <1>2, Zenon DEF Bounded
<1>4. (Success(f, n) => <<"import", n>> \in held) => Backed(<<f>>, n, held)
  BY <1>2, Zenon DEF Backed
<1>5. ~Deletion(f) => ~Has(<<f>>)
  BY <1>2, Zenon DEF Has
<1>6. Lone(<<f>>)
  BY <1>2, Zenon DEF Lone
<1>. QED BY <1>1, <1>3, <1>4, <1>5, <1>6

-----------------------------------------------------------------------------
(* What keeps each part of the invariant.                                  *)

Exports == \A s \in Runners : exporting[s].phase # "off" => exporting[s].op \in 1..db.op
Routes  == \A h \in Runners \X Sides : routed[h] # None => routed[h].op \in 1..db.op
Imports == \A s \in Runners : importing'[s].op # 0 => importing[s].op # 0
Grown   == \A n \in Nat : <<"import", n>> \in receipts[db.target] => <<"import", n>> \in receipts'[db.target]

LEMMA OpsKept ==
  ASSUME OpsInv, NEW held, NEW any, db'.op = db.op, Flow(up, up', held), Flow(down, down', any), Left(held),
         Exports', Routes'
  PROVE  OpsInv'
<1>1. \A s \in Runners : Bounded(up[s], db.op) /\ Bounded(late[s], db.op) /\ Bounded(down[s], db.op)
  BY Zenon DEF OpsInv
<1>2. \A s \in Runners : Bounded(up'[s], db.op) /\ Bounded(down'[s], db.op)
  BY <1>1, Zenon DEF Flow, Kept
<1>3. \A s \in Runners : Bounded(late'[s], db.op)
  BY <1>1, Zenon DEF Left, Kept
<1>4. \A s \in Runners : Bounded(up'[s], db'.op) /\ Bounded(late'[s], db'.op) /\ Bounded(down'[s], db'.op)
  BY <1>2, <1>3
<1>5. \A s \in Runners : exporting'[s].phase # "off" => exporting'[s].op \in 1..db'.op
  BY Zenon DEF Exports
<1>6. \A h \in Runners \X Sides : routed'[h] # None => routed'[h].op \in 1..db'.op
  BY Zenon DEF Routes
<1>. QED BY <1>4, <1>5, <1>6, Zenon DEF OpsInv

LEMMA DelFlow ==
  ASSUME DelInv, NEW held, NEW any, Flow(up, up', held), Flow(down, down', any),
         db'.source = db.source, db.state = "deleting_source" => db'.state = "deleting_source",
         Pending(db') => Pending(db)
  PROVE  DelInv'
<1>1. ASSUME NEW s \in Runners, Deleting(s)
      PROVE  Deleting(s)'
  BY <1>1 DEF Deleting
<1>2. ASSUME NEW s \in Runners
      PROVE  /\ Lone(down'[s]) /\ Lone(up'[s])
             /\ Has(down'[s]) => Has(down[s])
             /\ Has(up'[s]) => Has(up[s])
  BY <1>2, Zenon DEF DelInv, Flow, Kept
<1>3. ASSUME NEW s \in Runners
      PROVE  /\ Has(down'[s]) => Deleting(s)' /\ ~Has(up'[s])
             /\ Has(up'[s]) => Deleting(s)'
  BY <1>1, <1>2, <1>3, Zenon DEF DelInv
<1>. QED BY <1>2, <1>3, Zenon DEF DelInv

LEMMA DelKept ==
  ASSUME DelInv, NEW held, NEW any, Quiet(db, db'), Flow(up, up', held), Flow(down, down', any)
  PROVE  DelInv'
<1>1. /\ db'.source = db.source
      /\ db.state = "deleting_source" => db'.state = "deleting_source"
      /\ Pending(db') => Pending(db)
  BY DEF Quiet, Same, Pending
<1>. QED BY <1>1, DelFlow

LEMMA BackKept ==
  ASSUME Types, BackInv, Same(db, db'), Grown, Flow(up, up', receipts'), Left(receipts')
  PROVE  BackInv'
<1>. DEFINE t == db.target  n == db.op  held == receipts'[t]
<1>1. t \in Runners /\ n \in Nat /\ db'.target = t /\ db'.op = n
  BY RowFields DEF Types, Same
<1>2. Backed(up[t], n, held) /\ Backed(late[t], n, held)
  BY <1>1, Zenon DEF BackInv, Backed, Grown
<1>3. Backed(up'[t], n, held)
  BY <1>1, <1>2, Zenon DEF Flow, Kept
<1>4. Backed(late'[t], n, held)
  BY <1>1, <1>2, Zenon DEF Left, Kept
<1>5. Backed(up'[db'.target], db'.op, receipts'[db'.target]) /\ Backed(late'[db'.target], db'.op, receipts'[db'.target])
  BY <1>1, <1>3, <1>4
<1>. QED BY <1>5, Zenon DEF BackInv

LEMMA ImportKept ==
  ASSUME ImportInv, UNCHANGED store, Imports
  PROVE  ImportInv'
<1>1. image' = image /\ made' = made /\ receipts' = receipts
  BY DEF store
<1>. QED BY <1>1, Zenon DEF ImportInv, Imports

LEMMA HomeKept ==
  ASSUME HomeInv, UNCHANGED store, db'.home = db.home
  PROVE  HomeInv'
<1>1. image' = image /\ made' = made /\ receipts' = receipts
  BY DEF store
<1>2. image'[db'.home] # "none" /\ (made'[db'.home] # 0 => <<"import", made'[db'.home]>> \in receipts'[db'.home])
  BY <1>1 DEF HomeInv
<1>. QED BY <1>2, Zenon DEF HomeInv

(* A step that leaves the stores alone.                                    *)
LEMMA Steady ==
  ASSUME RelocationInv, Types', RowInv(db'), Same(db, db'), OpsInv', DelInv', HomeInv',
         UNCHANGED store, Imports, Flow(up, up', receipts), Left(receipts)
  PROVE  RelocationInv'
<1>1. receipts' = receipts /\ Grown
  BY DEF store, Grown
<1>2. Flow(up, up', receipts') /\ Left(receipts')
  BY <1>1
<1>3. Types /\ ImportInv /\ BackInv
  BY Zenon DEF RelocationInv
<1>4. BackInv'
  BY <1>1, <1>2, <1>3, BackKept
<1>5. ImportInv'
  BY <1>3, ImportKept
<1>. QED BY <1>4, <1>5, Zenon DEF RelocationInv

(* One that touches no deletion either.                                    *)
LEMMA Calm ==
  ASSUME RelocationInv, Types', Quiet(db, db'), UNCHANGED store, Imports, Exports', Routes',
         NEW any, Flow(up, up', receipts), Flow(down, down', any), Left(receipts)
  PROVE  RelocationInv'
<1>1. /\ OpsInv /\ DelInv /\ HomeInv
      /\ RowInv(db') /\ Same(db, db') /\ db'.home = db.home /\ db'.op = db.op
  BY Zenon DEF RelocationInv, Quiet, Same
<1>2. OpsInv' /\ DelInv' /\ HomeInv'
  BY <1>1, OpsKept, DelKept, HomeKept
<1>. QED BY <1>1, <1>2, Steady

(* Most steps leave the rows alone.                                        *)
LEMMA CalmRows ==
  ASSUME RelocationInv, Types', UNCHANGED <<db, store>>, Imports, Exports', Routes',
         NEW any, Flow(up, up', receipts), Flow(down, down', any), Left(receipts)
  PROVE  RelocationInv'
<1>1. db \in Rows /\ RowInv(db) /\ db' = db
  BY DEF RelocationInv, Types
<1>2. Quiet(db, db')
  BY <1>1, QuietRefl
<1>. QED BY <1>2, Calm

(* What the unchanged parts say.                                           *)
LEMMA Rest ==
  ASSUME RelocationInv, NEW held
  PROVE  /\ db' = db /\ exporting' = exporting => Exports'
         /\ db' = db /\ routed' = routed => Routes'
         /\ importing' = importing => Imports
         /\ up' = up => Flow(up, up', held)
         /\ down' = down => Flow(down, down', held)
         /\ late' = late => Left(held)
         /\ Types /\ OpsInv /\ Exports /\ Routes /\ DelInv /\ ImportInv /\ HomeInv /\ BackInv
         /\ db \in Rows /\ RowInv(db)
<1>1. Types /\ OpsInv /\ Exports /\ Routes /\ DelInv /\ ImportInv /\ HomeInv /\ BackInv /\ db \in Rows /\ RowInv(db)
  BY Zenon DEF RelocationInv, OpsInv, Exports, Routes, Types
<1>2. ASSUME db' = db, exporting' = exporting
      PROVE  Exports'
  <2>1. \A s \in Runners : exporting'[s].phase # "off" => exporting'[s].op \in 1..db'.op
    BY <1>1, <1>2 DEF Exports
  <2>. QED BY <2>1, Zenon DEF Exports
<1>3. ASSUME db' = db, routed' = routed
      PROVE  Routes'
  <2>1. \A h \in Runners \X Sides : routed'[h] # None => routed'[h].op \in 1..db'.op
    BY <1>1, <1>3 DEF Routes
  <2>. QED BY <2>1, Zenon DEF Routes
<1>4. importing' = importing => Imports
  BY Zenon DEF Imports
<1>5. (up' = up => Flow(up, up', held)) /\ (down' = down => Flow(down, down', held))
  BY FlowSame, Zenon
<1>6. late' = late => Left(held)
  BY KeptSame, Zenon DEF Left
<1>. QED BY <1>1, <1>2, <1>3, <1>4, <1>5, <1>6

(* What a Runner variable becomes at one Runner.                           *)
LEMMA SetAt ==
  ASSUME NEW T, NEW f \in [Runners -> T], NEW r \in Runners, NEW v \in T, NEW g, g = [f EXCEPT ![r] = v]
  PROVE  g \in [Runners -> T] /\ g[r] = v /\ \A s \in Runners : s # r => g[s] = f[s]
OBVIOUS

LEMMA Spends ==
  ASSUME Types
  PROVE  /\ budget \in [Bounds -> Nat]
         /\ \A b \in Bounds : Spend(b) => budget' \in [Bounds -> Nat]
<1>1. budget \in [Bounds -> Nat]
  BY Zenon DEF Types
<1>2. ASSUME NEW b \in Bounds, Spend(b)
      PROVE  budget' \in [Bounds -> Nat]
  <2>1. budget[b] \in Nat /\ budget[b] > 0 /\ budget' = [budget EXCEPT ![b] = budget[b] - 1]
    BY <1>1, <1>2 DEF Spend
  <2>2. budget[b] - 1 \in Nat
    BY <2>1
  <2>. QED BY <1>1, <2>1, <2>2
<1>. QED BY <1>1, <1>2

LEMMA NoneOf == /\ NoExport \in Exported /\ NoExport.phase = "off"
                /\ NoImport \in Imported /\ NoImport.op = 0
BY DEF Exported, NoExport, Phases, Names, Imported, NoImport

(* The invariant holds at first.                                           *)
LEMMA InitInv ==
  ASSUME Init
  PROVE  RelocationInv
<1>0. First \in Runners /\ Scenarios \subseteq [Bounds -> Nat]
  BY RelocationAssumption
<1>1. /\ db = InitialRows
      /\ link = [r \in Runners |-> "up"]
      /\ up = [r \in Runners |-> <<>>] /\ down = [r \in Runners |-> <<>>] /\ late = [r \in Runners |-> <<>>]
      /\ routed = [h \in Runners \X Sides |-> None]
      /\ session = [r \in Runners |-> TRUE]
      /\ busy = [r \in Runners |-> FALSE] /\ doomed = [r \in Runners |-> FALSE]
      /\ exporting = [r \in Runners |-> NoExport] /\ importing = [r \in Runners |-> NoImport]
      /\ image = [r \in Runners |-> IF r = First THEN "open" ELSE "none"]
      /\ made = [r \in Runners |-> 0] /\ receipts = [r \in Runners |-> {}]
      /\ budget \in [Bounds -> Nat]
  BY <1>0 DEF Init, Sides
<1>2. /\ db \in Rows /\ db.home = First /\ db.state = "none" /\ db.cmds = {} /\ db.op = 0 /\ db.target = First
  <2>1. {} \in Queues
    BY DEF Queues
  <2>2. [r \in Runners |-> "none"] \in [Runners -> Recons]
    BY DEF Recons
  <2>. QED BY <1>0, <1>1, <2>1, <2>2, Zenon DEF InitialRows, Rows, Slots, Names, States, Outcomes
<1>3. RowInv(db)
  BY <1>2 DEF RowInv, Ended
<1>4. \A r \in Runners : up[r] = <<>> /\ down[r] = <<>> /\ late[r] = <<>>
  BY <1>1
<1>5. /\ \A S : <<>> \in Seq(S)
      /\ \A n, held : Bounded(<<>>, n) /\ Backed(<<>>, n, held)
      /\ Lone(<<>>) /\ ~Has(<<>>)
  BY EmptyKeeps
<1>6. Types
  <2>1. /\ up \in [Runners -> Seq(UpFrames)] /\ down \in [Runners -> Seq(DownFrames)] /\ late \in [Runners -> Seq(UpFrames)]
    BY <1>1, <1>5
  <2>2. routed \in [Runners \X Sides -> Transfers \cup {None}]
    BY <1>1
  <2>3. exporting \in [Runners -> Exported] /\ importing \in [Runners -> Imported]
    BY <1>1, NoneOf
  <2>4. link \in [Runners -> Links] /\ image \in [Runners -> Images] /\ made \in [Runners -> Nat]
    BY <1>1 DEF Links, Images
  <2>5. /\ session \in [Runners -> BOOLEAN] /\ busy \in [Runners -> BOOLEAN] /\ doomed \in [Runners -> BOOLEAN]
        /\ receipts \in [Runners -> SUBSET Receipts]
    BY <1>1
  <2>. QED BY <1>1, <1>2, <2>1, <2>2, <2>3, <2>4, <2>5, Zenon DEF Types
<1>7. OpsInv
  <2>1. \A r \in Runners : Bounded(up[r], db.op) /\ Bounded(late[r], db.op) /\ Bounded(down[r], db.op)
    BY <1>4, <1>5
  <2>2. \A h \in Runners \X Sides : routed[h] = None
    BY <1>1
  <2>3. \A r \in Runners : exporting[r].phase = "off"
    BY <1>1, NoneOf
  <2>. QED BY <2>1, <2>2, <2>3, Zenon DEF OpsInv
<1>8. DelInv
  BY <1>4, <1>5, Zenon DEF DelInv
<1>9. ImportInv /\ HomeInv
  <2>1. /\ \A r \in Runners : importing[r].op = 0 /\ receipts[r] = {} /\ made[r] = 0
        /\ image[First] = "open"
    BY <1>0, <1>1, NoneOf
  <2>. QED BY <1>0, <1>2, <2>1 DEF ImportInv, HomeInv
<1>10. BackInv
  BY <1>0, <1>2, <1>4, <1>5, Zenon DEF BackInv
<1>. QED BY <1>3, <1>6, <1>7, <1>8, <1>9, <1>10, Zenon DEF RelocationInv

-----------------------------------------------------------------------------
(* The Runner: its receive loop, its export, and its WorkspaceStore.       *)

ReceiptKinds == {"export", "abort", "import", "delete", "delete, no capacity"}

(* Images are sealed and unsealed, and receipts of that are written.       *)
Marked ==
  /\ \A s \in Runners : image'[s] = "none" <=> image[s] = "none"
  /\ \A s \in Runners : \A n \in Nat : <<"import", n>> \in receipts'[s] <=> <<"import", n>> \in receipts[s]

(* Images appear and go, at one Runner.                                    *)
ElseSame(r) ==
  \A s \in Runners : s # r => /\ image'[s] = image[s] /\ made'[s] = made[s] /\ receipts'[s] = receipts[s]
                              /\ importing'[s] = importing[s]

(* What a Runner does.                                                     *)
LEMMA RunnerKept ==
  \A r \in Runners :
    RelocationInv /\ (Loop(r) \/ Export(r) \/ EndSession(r) \/ Faults(r)) => RelocationInv'
(* The Runner sends frames that are not about a deletion.                  *)
<1>Sends. ASSUME Types, NEW r \in Runners, NEW p \in Seq(UpFrames), Send(r, p), NEW held,
                 Bounded(p, db.op), Backed(p, db.op, held[r]), ~Has(p)
          PROVE  up' \in [Runners -> Seq(UpFrames)] /\ Flow(up, up', held)
  <2>. USE <1>Sends
  <2>0. up \in [Runners -> Seq(UpFrames)] /\ up[r] \in Seq(UpFrames)
    BY DEF Types
  <2>1. CASE up' = up
    BY <2>0, <2>1, FlowSame
  <2>2. CASE up' = [up EXCEPT ![r] = up[r] \o p]
    <3>1. up[r] \o p \in Seq(UpFrames) /\ Kept(up[r], up[r] \o p, db.op, held[r])
      BY <2>0, KeptJoin, JoinOf
    <3>. QED BY <2>0, <2>2, <3>1, FlowAt, Zenon
  <2>. QED BY <2>1, <2>2 DEF Send
<1>Replies. ASSUME Types, NEW r \in Runners, NEW f \in UpFrames, Send(r, <<f>>), NEW held,
                   Within(f, db.op), Success(f, db.op) => <<"import", db.op>> \in held[r], ~Deletion(f)
            PROVE  up' \in [Runners -> Seq(UpFrames)] /\ Flow(up, up', held)
  BY <1>Replies, OneFrame, <1>Sends, Zenon
(* The Runner takes a frame.                                               *)
<1>Takes. ASSUME Types, OpsInv, NEW r \in Runners, down[r] # <<>>, NEW held
          PROVE  /\ Head(down[r]) \in DownFrames /\ Within(Head(down[r]), db.op)
                 /\ Deletion(Head(down[r])) => Has(down[r])
                 /\ Next1(r) => /\ down' \in [Runners -> Seq(DownFrames)] /\ Flow(down, down', held)
                                /\ down'[r] = Tail(down[r])
                                /\ \A s \in Runners : s # r => down'[s] = down[s]
  <2>. USE <1>Takes
  <2>0. down \in [Runners -> Seq(DownFrames)] /\ down[r] \in Seq(DownFrames) /\ Bounded(down[r], db.op)
    BY DEF Types, OpsInv
  <2>1. Head(down[r]) \in DownFrames /\ Tail(down[r]) \in Seq(DownFrames)
    BY <2>0, TailOf, Zenon
  <2>2. Within(Head(down[r]), db.op) /\ (Deletion(Head(down[r])) => Has(down[r]))
    BY <2>0, TailKeeps, Zenon
  <2>3. ASSUME Next1(r)
        PROVE  /\ down' \in [Runners -> Seq(DownFrames)] /\ Flow(down, down', held)
               /\ down'[r] = Tail(down[r]) /\ \A s \in Runners : s # r => down'[s] = down[s]
    <3>1. down' = [down EXCEPT ![r] = Tail(down[r])]
      BY <2>3 DEF Next1
    <3>2. Kept(down[r], Tail(down[r]), db.op, held[r])
      BY <2>0, KeptTail
    <3>3. down' \in [Runners -> Seq(DownFrames)] /\ Flow(down, down', held)
      BY <2>0, <2>1, <3>1, <3>2, FlowAt, Zenon
    <3>. QED BY <2>0, <3>1, <3>3
  <2>. QED BY <2>1, <2>2, <2>3
<1>TransferOf. ASSUME NEW what \in Whats, NEW n \in Nat, NEW seq \in Nat, NEW ok \in BOOLEAN, NEW m
               PROVE  LET f == Transfer(what, n, seq, ok) IN
                      /\ f \in Transfers /\ f \in UpFrames
                      /\ n \in 1..m => Within(f, m)
                      /\ Success(f, m) => what = "result" /\ ok = TRUE /\ n = m
                      /\ ~Deletion(f)
  BY <1>TransferOf DEF Transfer, Transfers, UpFrames, Within, Success, Deletion
<1>ResultOf. ASSUME NEW kind \in Kinds, NEW name \in Names, NEW n \in Nat, NEW ok \in BOOLEAN,
                    NEW full \in BOOLEAN, NEW m
             PROVE  LET f == Result(kind, name, n, ok, full) IN
                    /\ f \in UpFrames /\ Within(f, m) /\ ~Success(f, m)
                    /\ Deletion(f) <=> kind = "delete"
  BY <1>ResultOf DEF Result, Results, UpFrames, Within, Success, Deletion
<1>DownOf. ASSUME NEW f \in DownFrames
           PROVE  /\ f.type = "transfer" => f \in Transfers /\ f.what \in Whats /\ f.seq \in Nat /\ f.ok \in BOOLEAN
                  /\ f.type = "command" => f.kind \in Kinds /\ f.name \in Names /\ f.corr \in Runners
                  /\ f.type \in {"transfer", "command"} /\ f.op \in Nat
                  /\ Deletion(f) <=> f.type = "command" /\ f.kind = "delete"
                  /\ \A m : Within(f, m) /\ (f.type = "command" => f.kind # "reconcile") => f.op \in 1..m
  BY <1>DownOf DEF DownFrames, Transfers, Orders, Deletion, Within
<1>WaitKept. ASSUME RelocationInv, NEW r \in Runners, Wait(r)
             PROVE  RelocationInv'
  <2>. USE <1>WaitKept
  <2>1. /\ busy' = [busy EXCEPT ![r] = TRUE]
        /\ UNCHANGED <<db, link, up, down, late, routed, session, doomed, exporting, importing, image, made, receipts, budget>>
    BY Zenon DEF Wait, wire, store
  <2>2. busy' \in [Runners -> BOOLEAN]
    BY <2>1, Rest, SetAt DEF Types
  <2>3. Types'
    BY <2>1, <2>2, Rest, Zenon DEF Types
  <2>. QED BY <2>1, <2>3, Rest, CalmRows, Zenon DEF store
<1>ServeReconcileKept. ASSUME RelocationInv, NEW r \in Runners, ServeReconcile(r)
                       PROVE  RelocationInv'
  <2>. USE <1>ServeReconcileKept
  <2>. DEFINE f == [type |-> "report", image |-> image[r], receipts |-> receipts[r]]
  <2>1. /\ down[r] # <<>> /\ Next1(r) /\ busy' = [busy EXCEPT ![r] = FALSE] /\ Send(r, <<f>>)
        /\ UNCHANGED <<db, link, late, routed, session, doomed, exporting, importing, image, made, receipts, budget>>
    BY Zenon DEF ServeReconcile, Resumes, store
  <2>2. Types /\ OpsInv /\ image[r] \in Images /\ receipts[r] \in SUBSET Receipts
    BY Rest, Zenon DEF Types
  <2>3. f \in UpFrames /\ Within(f, db.op) /\ ~Success(f, db.op) /\ ~Deletion(f)
    BY <2>2 DEF UpFrames, Reports, Within, Success, Deletion
  <2>. HIDE DEF f
  <2>4. up' \in [Runners -> Seq(UpFrames)] /\ Flow(up, up', receipts)
    BY <2>1, <2>2, <2>3, <1>Replies
  <2>5. down' \in [Runners -> Seq(DownFrames)] /\ Flow(down, down', receipts)
    BY <2>1, <2>2, <1>Takes
  <2>6. busy' \in [Runners -> BOOLEAN]
    BY <2>1, <2>2, SetAt DEF Types
  <2>7. Types'
    BY <2>1, <2>2, <2>4, <2>5, <2>6, Zenon DEF Types
  <2>. QED BY <2>1, <2>4, <2>5, <2>7, Rest, CalmRows, Zenon DEF store
<1>ServeExportKept. ASSUME RelocationInv, NEW r \in Runners, ServeExport(r)
                    PROVE  RelocationInv'
  <2>. USE <1>ServeExportKept
  <2>. DEFINE f == Head(down[r])
              x == [NoExport EXCEPT !.phase = "opening", !.op = f.op, !.name = f.name]
              Refusal == Result("export", f.name, f.op, FALSE, TRUE)
  <2>1. /\ down[r] # <<>> /\ Next1(r) /\ f.type = "command" /\ f.kind = "export"
        /\ \/ doomed' = [doomed EXCEPT ![r] = TRUE] /\ exporting' = exporting /\ up' = up
           \/ exporting' = [exporting EXCEPT ![r] = x] /\ doomed' = doomed /\ up' = up
           \/ Send(r, <<Refusal>>) /\ doomed' = doomed /\ exporting' = exporting
        /\ UNCHANGED <<db, link, late, routed, session, busy, importing, image, made, receipts, budget>>
    BY Zenon DEF ServeExport, Receives, store
  <2>2. Types /\ OpsInv /\ Exports /\ doomed \in [Runners -> BOOLEAN] /\ exporting \in [Runners -> Exported]
    BY Rest, Zenon DEF Types
  <2>3. f \in DownFrames /\ Within(f, db.op) /\ down' \in [Runners -> Seq(DownFrames)] /\ Flow(down, down', receipts)
    BY <2>1, <2>2, <1>Takes
  <2>4. f.op \in Nat /\ f.name \in Names /\ f.op \in 1..db.op
    BY <2>1, <2>3, <1>DownOf
  <2>5. x \in Exported /\ x.op = f.op
    BY <2>4, Zenon DEF Exported, NoExport, Phases
  <2>10. up' \in [Runners -> Seq(UpFrames)] /\ Flow(up, up', receipts)
    <3>1. "export" \in Kinds /\ "export" # "delete" /\ TRUE \in BOOLEAN /\ FALSE \in BOOLEAN
      BY DEF Kinds
    <3>2. Refusal \in UpFrames /\ Within(Refusal, db.op) /\ ~Success(Refusal, db.op) /\ ~Deletion(Refusal)
      BY <2>4, <3>1, <1>ResultOf, Zenon
    <3>. HIDE DEF Refusal
    <3>3. CASE up' = up
      BY <2>2, <3>3, FlowSame DEF Types
    <3>4. CASE Send(r, <<Refusal>>)
      BY <2>2, <3>2, <3>4, <1>Replies, Zenon
    <3>. QED BY <2>1, <3>3, <3>4, Zenon
  <2>. HIDE DEF f, x, Refusal
  <2>6. doomed' \in [Runners -> BOOLEAN]
    BY <2>1, <2>2, SetAt, Zenon
  <2>7. /\ exporting' \in [Runners -> Exported]
        /\ \A s \in Runners : exporting'[s] = x \/ exporting'[s] = exporting[s]
    BY <2>1, <2>2, <2>5, SetAt
  <2>8. Exports'
    <3>1. \A s \in Runners : exporting'[s].phase # "off" => exporting'[s].op \in 1..db'.op
      BY <2>1, <2>2, <2>4, <2>5, <2>7 DEF Exports
    <3>. QED BY <3>1, Zenon DEF Exports
  <2>9. Types'
    BY <2>1, <2>2, <2>3, <2>6, <2>7, <2>10, Zenon DEF Types
  <2>. QED BY <2>1, <2>3, <2>8, <2>9, <2>10, Rest, CalmRows, Zenon DEF store
(* Leaving a session.                                                      *)
<1>Leaves. ASSUME RelocationInv, NEW r \in Runners, Leave(r), NEW held
           PROVE  /\ UNCHANGED <<db, up, late, routed>>
                  /\ session' \in [Runners -> BOOLEAN] /\ busy' \in [Runners -> BOOLEAN] /\ doomed' \in [Runners -> BOOLEAN]
                  /\ exporting' \in [Runners -> Exported] /\ importing' \in [Runners -> Imported]
                  /\ link' \in [Runners -> Links] /\ down' \in [Runners -> Seq(DownFrames)]
                  /\ Exports' /\ Flow(down, down', held)
                  /\ importing'[r].op = 0 /\ \A s \in Runners : s # r => importing'[s] = importing[s]
  <2>. USE <1>Leaves
  <2>. DEFINE l == IF link[r] = "up" THEN "cut" ELSE link[r]
  <2>1. /\ UNCHANGED <<db, up, late, routed>>
        /\ session' = [session EXCEPT ![r] = FALSE] /\ busy' = [busy EXCEPT ![r] = FALSE]
        /\ doomed' = [doomed EXCEPT ![r] = FALSE]
        /\ exporting' = [exporting EXCEPT ![r] = NoExport]
        /\ importing' = [importing EXCEPT ![r] = NoImport]
        /\ link' = [link EXCEPT ![r] = l] /\ down' = [down EXCEPT ![r] = <<>>]
    BY DEF Leave
  <2>2. /\ session \in [Runners -> BOOLEAN] /\ busy \in [Runners -> BOOLEAN] /\ doomed \in [Runners -> BOOLEAN]
        /\ exporting \in [Runners -> Exported] /\ importing \in [Runners -> Imported]
        /\ link \in [Runners -> Links] /\ down \in [Runners -> Seq(DownFrames)] /\ Exports
    BY Rest, Zenon DEF Types
  <2>3. /\ NoExport \in Exported /\ NoExport.phase = "off" /\ NoImport \in Imported /\ NoImport.op = 0
        /\ l \in Links /\ <<>> \in Seq(DownFrames)
    <3>1. NoExport \in Exported /\ NoExport.phase = "off" /\ NoImport \in Imported /\ NoImport.op = 0
      BY DEF Exported, NoExport, Phases, Names, Imported, NoImport
    <3>2. l \in Links
      BY <2>2 DEF Links
    <3>. QED BY <3>1, <3>2
  <2>. HIDE DEF l
  <2>4. session' \in [Runners -> BOOLEAN] /\ busy' \in [Runners -> BOOLEAN] /\ doomed' \in [Runners -> BOOLEAN]
    BY <2>1, <2>2, SetAt
  <2>5. /\ exporting' \in [Runners -> Exported] /\ importing' \in [Runners -> Imported] /\ link' \in [Runners -> Links]
        /\ \A s \in Runners : exporting'[s] = NoExport \/ exporting'[s] = exporting[s]
        /\ importing'[r].op = 0 /\ \A s \in Runners : s # r => importing'[s] = importing[s]
    BY <2>1, <2>2, <2>3, SetAt
  <2>6. down' \in [Runners -> Seq(DownFrames)] /\ Flow(down, down', held)
    BY <2>1, <2>2, <2>3, KeptEmpty, FlowAt, Zenon
  <2>7. Exports'
    <3>1. \A s \in Runners : exporting'[s].phase # "off" => exporting'[s].op \in 1..db'.op
      BY <2>1, <2>2, <2>3, <2>5 DEF Exports
    <3>. QED BY <3>1, Zenon DEF Exports
  <2>. QED BY <2>1, <2>4, <2>5, <2>6, <2>7
(* A transfer frame at the head of the queue.                              *)
<1>HeadTransfer. ASSUME RelocationInv, NEW r \in Runners, Receives(r), Head(down[r]).type = "transfer"
                 PROVE  /\ down[r] # <<>>
                        /\ Head(down[r]) \in DownFrames /\ Head(down[r]).op \in 1..db.op /\ Head(down[r]).op \in Nat
                        /\ Head(down[r]).seq \in Nat /\ Head(down[r]).op # 0
  <2>. USE <1>HeadTransfer
  <2>1. down[r] # <<>>
    BY DEF Receives
  <2>2. Types /\ OpsInv /\ db.op \in Nat
    BY Rest, RowFields
  <2>3. Head(down[r]) \in DownFrames /\ Within(Head(down[r]), db.op)
    BY <2>1, <2>2, <1>Takes
  <2>4. Head(down[r]).op \in 1..db.op /\ Head(down[r]).op \in Nat /\ Head(down[r]).seq \in Nat
    BY <2>3, <1>DownOf
  <2>5. \A m \in Nat : \A i \in 1..m : i # 0
    OBVIOUS
  <2>. QED BY <2>1, <2>2, <2>3, <2>4, <2>5, Zenon
(* An import goes on, or ends.                                             *)
<1>ImportsOn. ASSUME RelocationInv, NEW r \in Runners, Receives(r), Head(down[r]).type = "transfer",
                     NEW n \in Nat, Importing(r, n)
              PROVE  /\ importing' \in [Runners -> Imported]
                     /\ \A s \in Runners : s # r => importing'[s] = importing[s]
                     /\ importing'[r].op = IF n = 0 THEN 0 ELSE Head(down[r]).op
  <2>. USE <1>ImportsOn
  <2>. DEFINE f == Head(down[r])  x == IF n = 0 THEN NoImport ELSE [op |-> f.op, seq |-> n]
  <2>1. f.op \in Nat /\ importing \in [Runners -> Imported]
    BY <1>HeadTransfer, Rest DEF Types
  <2>2. x \in Imported /\ x.op = IF n = 0 THEN 0 ELSE f.op
    BY <2>1, NoneOf DEF Imported
  <2>3. importing' = [importing EXCEPT ![r] = x]
    BY DEF Importing
  <2>. HIDE DEF x, f
  <2>4. importing' \in [Runners -> Imported] /\ importing'[r] = x /\ \A s \in Runners : s # r => importing'[s] = importing[s]
    BY <2>1, <2>2, <2>3, SetAt
  <2>. QED BY <2>2, <2>4 DEF f
(* An answer to a transfer frame.                                          *)
<1>RepliesTo. ASSUME RelocationInv, NEW r \in Runners, Receives(r), Head(down[r]).type = "transfer",
                     NEW what \in Whats, NEW n \in Nat, NEW ok \in BOOLEAN, Reply(r, what, n, ok), NEW held,
                     what = "result" /\ ok = TRUE => <<"import", Head(down[r]).op>> \in held[r]
              PROVE  up' \in [Runners -> Seq(UpFrames)] /\ Flow(up, up', held)
  <2>. USE <1>RepliesTo
  <2>. DEFINE h == Head(down[r])  f == Transfer(what, h.op, n, ok)
  <2>1. h.op \in 1..db.op /\ h.op \in Nat
    BY <1>HeadTransfer
  <2>2. /\ f \in UpFrames /\ Within(f, db.op) /\ ~Deletion(f)
        /\ Success(f, db.op) => what = "result" /\ ok = TRUE /\ h.op = db.op
    BY <2>1, <1>TransferOf, Zenon
  <2>3. Send(r, <<f>>)
    BY Zenon DEF Reply
  <2>. HIDE DEF f
  <2>4. Success(f, db.op) => <<"import", db.op>> \in held[r]
    BY <2>2
  <2>. QED BY <2>2, <2>3, <2>4, Rest, <1>Replies, Zenon
<1>ServeChunkKept. ASSUME RelocationInv, NEW r \in Runners, ServeChunk(r)
                   PROVE  RelocationInv'
  <2>. USE <1>ServeChunkKept
  <2>1. /\ Receives(r) /\ Head(down[r]).type = "transfer" /\ Expected(r) /\ Next1(r)
        /\ \/ Importing(r, importing[r].seq + 1) /\ Reply(r, "credit", 1, TRUE) /\ budget' = budget
           \/ Spend("fail") /\ Importing(r, 0) /\ Reply(r, "result", 1, FALSE)
        /\ UNCHANGED <<db, link, late, routed, session, busy, doomed, exporting, image, made, receipts>>
    BY Zenon DEF ServeChunk, IsTransfer, store
  <2>2. Types /\ OpsInv /\ down[r] # <<>> /\ importing[r].seq \in Nat /\ importing[r].seq + 1 \in Nat
    <3>1. Types /\ OpsInv /\ importing[r] \in Imported /\ down[r] # <<>>
      BY <2>1, Rest, <1>HeadTransfer, Zenon DEF Types
    <3>2. importing[r].seq \in Nat /\ importing[r].seq + 1 \in Nat
      BY <3>1 DEF Imported
    <3>. QED BY <3>1, <3>2
  <2>3. down' \in [Runners -> Seq(DownFrames)] /\ Flow(down, down', receipts)
    BY <2>1, <2>2, <1>Takes
  <2>4. importing[r].op = Head(down[r]).op /\ Head(down[r]).op # 0
    BY <2>1, <1>HeadTransfer DEF Expected
  <2>5. importing' \in [Runners -> Imported] /\ Imports
    <3>1. \E n \in Nat : Importing(r, n)
      BY <2>1, <2>2, Zenon
    <3>. QED BY <2>1, <2>4, <3>1, <1>ImportsOn DEF Imports
  <2>6. up' \in [Runners -> Seq(UpFrames)] /\ Flow(up, up', receipts)
    <3>1. "credit" \in Whats /\ "result" \in Whats /\ "credit" # "result" /\ 1 \in Nat
      BY DEF Whats
    <3>. QED BY <2>1, <3>1, <1>RepliesTo, Zenon
  <2>7. budget' \in [Bounds -> Nat]
    BY <2>1, <2>2, Spends, Zenon DEF Bounds
  <2>8. Types'
    BY <2>1, <2>2, <2>3, <2>5, <2>6, <2>7, Zenon DEF Types
  <2>. QED BY <2>1, <2>3, <2>5, <2>6, <2>8, Rest, CalmRows, Zenon DEF store
<1>ServeCreditKept. ASSUME RelocationInv, NEW r \in Runners, ServeCredit(r)
                    PROVE  RelocationInv'
  <2>. USE <1>ServeCreditKept
  <2>. DEFINE f == Head(down[r])  e == exporting[r]  x == [e EXCEPT !.credit = e.credit + f.seq]
  <2>1. /\ Receives(r) /\ f.type = "transfer" /\ Next1(r)
        /\ exporting' = [exporting EXCEPT ![r].credit = @ + f.seq]
        /\ UNCHANGED <<db, link, up, late, routed, session, busy, doomed, importing, image, made, receipts, budget>>
    BY Zenon DEF ServeCredit, IsTransfer, store
  <2>2. Types /\ OpsInv /\ Exports /\ down[r] # <<>> /\ f.seq \in Nat /\ exporting \in [Runners -> Exported]
    BY <2>1, Rest, <1>HeadTransfer, Zenon DEF Types
  <2>3. down' \in [Runners -> Seq(DownFrames)] /\ Flow(down, down', receipts)
    BY <2>1, <2>2, <1>Takes
  <2>4. x \in Exported /\ x.op = e.op /\ x.phase = e.phase /\ exporting' = [exporting EXCEPT ![r] = x]
    <3>1. e \in Exported /\ e.credit + f.seq \in Nat
      BY <2>2 DEF Exported
    <3>. QED BY <2>1, <2>2, <3>1 DEF Exported
  <2>. HIDE DEF x, f
  <2>5. /\ exporting' \in [Runners -> Exported]
        /\ \A s \in Runners : exporting'[s].op = exporting[s].op /\ exporting'[s].phase = exporting[s].phase
    BY <2>2, <2>4, SetAt
  <2>6. Exports'
    <3>1. \A s \in Runners : exporting'[s].phase # "off" => exporting'[s].op \in 1..db'.op
      BY <2>1, <2>2, <2>5 DEF Exports
    <3>. QED BY <3>1, Zenon DEF Exports
  <2>7. Types'
    BY <2>1, <2>2, <2>3, <2>5, Zenon DEF Types
  <2>. QED BY <2>1, <2>3, <2>6, <2>7, Rest, CalmRows, Zenon DEF store
<1>ServeResultKept. ASSUME RelocationInv, NEW r \in Runners, ServeResult(r)
                    PROVE  RelocationInv'
  <2>. USE <1>ServeResultKept
  <2>1. /\ Receives(r) /\ Head(down[r]).type = "transfer" /\ Next1(r)
        /\ \/ exporting' = [exporting EXCEPT ![r] = NoExport] /\ importing' = importing
           \/ Expected(r) /\ Importing(r, 0) /\ exporting' = exporting
        /\ UNCHANGED <<db, link, up, late, routed, session, busy, doomed, image, made, receipts, budget>>
    BY Zenon DEF ServeResult, IsTransfer, store
  <2>2. Types /\ OpsInv /\ Exports /\ down[r] # <<>> /\ exporting \in [Runners -> Exported] /\ importing \in [Runners -> Imported]
    BY <2>1, Rest, <1>HeadTransfer, Zenon DEF Types
  <2>3. down' \in [Runners -> Seq(DownFrames)] /\ Flow(down, down', receipts)
    BY <2>1, <2>2, <1>Takes
  <2>4. importing' \in [Runners -> Imported] /\ Imports
    <3>1. CASE importing' = importing
      BY <2>2, <3>1, Rest
    <3>2. CASE Importing(r, 0)
      BY <2>1, <3>2, <1>ImportsOn DEF Imports
    <3>. QED BY <2>1, <3>1, <3>2
  <2>5. exporting' \in [Runners -> Exported] /\ Exports'
    <3>1. /\ exporting' \in [Runners -> Exported]
          /\ \A s \in Runners : exporting'[s] = NoExport \/ exporting'[s] = exporting[s]
      BY <2>1, <2>2, NoneOf, SetAt
    <3>2. \A s \in Runners : exporting'[s].phase # "off" => exporting'[s].op \in 1..db'.op
      BY <2>1, <2>2, <3>1, NoneOf DEF Exports
    <3>. QED BY <3>1, <3>2, Zenon DEF Exports
  <2>6. Types'
    BY <2>1, <2>2, <2>3, <2>4, <2>5, Zenon DEF Types
  <2>. QED BY <2>1, <2>3, <2>4, <2>5, <2>6, Rest, CalmRows, Zenon DEF store
<1>LeavesKept. ASSUME RelocationInv, NEW r \in Runners, ServeUnknown(r) \/ EndSession(r) \/ Crash(r)
               PROVE  RelocationInv'
  <2>. USE <1>LeavesKept
  <2>LeaveKept. ASSUME RelocationInv, NEW r0 \in Runners, Leave(r0), UNCHANGED store, budget' \in [Bounds -> Nat]
                PROVE  RelocationInv'
    <3>. USE <2>LeaveKept
    <3>1. UNCHANGED <<db, up, late, routed, image, made, receipts>>
      BY <1>Leaves, Zenon DEF store
    <3>2. Types'
      BY <3>1, <1>Leaves, Rest, Zenon DEF Types
    <3>3. Imports
      BY <1>Leaves, Zenon DEF Imports
    <3>. QED BY <3>1, <3>2, <3>3, <1>Leaves, Rest, CalmRows, Zenon
  <2>1. Leave(r) /\ UNCHANGED store /\ (budget' = budget \/ Spend("crash"))
    BY Zenon DEF ServeUnknown, EndSession, Crash
  <2>2. budget' \in [Bounds -> Nat]
    BY <2>1, Rest, Spends DEF Bounds
  <2>. QED BY <2>1, <2>2, <2>LeaveKept
<1>BreakKept. ASSUME RelocationInv, NEW r \in Runners, Break(r)
              PROVE  RelocationInv'
  <2>. USE <1>BreakKept
  <2>1. /\ Spend("break") /\ link' = [link EXCEPT ![r] = "cut"]
        /\ UNCHANGED <<db, up, down, late, routed, session, busy, doomed, exporting, importing, image, made, receipts>>
    BY Zenon DEF Break, runner, store
  <2>2. budget' \in [Bounds -> Nat]
    BY <2>1, Rest, Spends DEF Bounds
  <2>3. link' \in [Runners -> Links]
    BY <2>1, Rest DEF Types, Links
  <2>4. Types'
    BY <2>1, <2>2, <2>3, Rest, Zenon DEF Types
  <2>. QED BY <2>1, <2>4, Rest, CalmRows, Zenon DEF store
(* The export sends its frames or gives up.                                *)
<1>SendChunkKept. ASSUME RelocationInv, NEW r \in Runners, SendChunk(r)
                  PROVE  RelocationInv'
  <2>. USE <1>SendChunkKept
  <2>FailureOf. ASSUME NEW m, NEW n \in Nat, n \in 1..m, NEW seq \in Nat
                PROVE  LET f == Transfer("result", n, seq, FALSE) IN
                       f \in UpFrames /\ Within(f, m) /\ ~Success(f, m) /\ ~Deletion(f)
    BY <2>FailureOf DEF Transfer, Transfers, UpFrames, Within, Success, Deletion, Whats
  <2>. DEFINE e == exporting[r]  n == e.sent + 1
              chunk == Transfer("chunk", e.op, n + 1, TRUE)
              commit == Transfer("commit", e.op, n + 2, TRUE)
              failure == Transfer("result", e.op, n + 1, FALSE)
              x == [e EXCEPT !.sent = n, !.credit = e.credit - 1, !.phase = IF n = Chunks THEN "waiting" ELSE e.phase]
  <2>1. /\ e.phase = "sending" /\ e.credit > 0
        /\ \/ Send(r, <<chunk>> \o (IF n = Chunks THEN <<commit>> ELSE <<>>)) /\ budget' = budget
           \/ Spend("fail") /\ Send(r, <<failure>>)
        /\ \/ exporting' = [exporting EXCEPT ![r] = NoExport]
           \/ exporting' = [exporting EXCEPT ![r] = x]
        /\ UNCHANGED <<db, link, down, late, routed, session, busy, doomed, importing, image, made, receipts>>
    BY DEF SendChunk, store
  <2>2. Types /\ Exports /\ exporting \in [Runners -> Exported] /\ e \in Exported
    BY Rest, Zenon DEF Types
  <2>3. e.op \in Nat /\ n \in Nat /\ n + 1 \in Nat /\ n + 2 \in Nat /\ e.credit - 1 \in Nat
    BY <2>1, <2>2 DEF Exported
  <2>4. e.op \in 1..db.op
    BY <2>1, <2>2 DEF Exports
  <2>5. x \in Exported /\ x.op = e.op
    BY <2>1, <2>2, <2>3, Zenon DEF Exported, Phases
  <2>6. "chunk" \in Whats /\ "commit" \in Whats /\ "result" \in Whats /\ "chunk" # "result" /\ "commit" # "result"
    BY DEF Whats
  <2>7. /\ chunk \in UpFrames /\ Within(chunk, db.op) /\ ~Success(chunk, db.op) /\ ~Deletion(chunk)
        /\ commit \in UpFrames /\ Within(commit, db.op) /\ ~Success(commit, db.op) /\ ~Deletion(commit)
        /\ failure \in UpFrames /\ Within(failure, db.op) /\ ~Success(failure, db.op) /\ ~Deletion(failure)
    <3>1. chunk \in UpFrames /\ Within(chunk, db.op) /\ ~Success(chunk, db.op) /\ ~Deletion(chunk)
      BY <2>3, <2>4, <2>6, <1>TransferOf, Zenon
    <3>2. commit \in UpFrames /\ Within(commit, db.op) /\ ~Success(commit, db.op) /\ ~Deletion(commit)
      BY <2>3, <2>4, <2>6, <1>TransferOf, Zenon
    <3>3. failure \in UpFrames /\ Within(failure, db.op) /\ ~Success(failure, db.op) /\ ~Deletion(failure)
      BY <2>3, <2>4, <2>FailureOf, Zenon
    <3>. QED BY <3>1, <3>2, <3>3, Zenon
  <2>. HIDE DEF n, chunk, commit, failure, x
  <2>8. up' \in [Runners -> Seq(UpFrames)] /\ Flow(up, up', receipts)
    <3>1. CASE Send(r, <<failure>>)
      BY <2>2, <2>7, <3>1, <1>Replies, Zenon
    <3>2. CASE n # Chunks /\ Send(r, <<chunk>> \o (IF n = Chunks THEN <<commit>> ELSE <<>>))
      <4>1. <<chunk>> \o (IF n = Chunks THEN <<commit>> ELSE <<>>) = <<chunk>>
        BY <3>2
      <4>. QED BY <2>2, <2>7, <3>2, <4>1, <1>Replies
    <3>3. CASE n = Chunks /\ Send(r, <<chunk>> \o (IF n = Chunks THEN <<commit>> ELSE <<>>))
      <4>. DEFINE p == <<chunk>> \o <<commit>>
      <4>1. Send(r, p)
        BY <3>3
      <4>2. /\ <<chunk>> \in Seq(UpFrames) /\ Bounded(<<chunk>>, db.op)
            /\ Backed(<<chunk>>, db.op, receipts[r]) /\ ~Has(<<chunk>>)
        BY <2>7, OneFrame, Zenon
      <4>3. /\ <<commit>> \in Seq(UpFrames) /\ Bounded(<<commit>>, db.op)
            /\ Backed(<<commit>>, db.op, receipts[r]) /\ ~Has(<<commit>>)
        BY <2>7, OneFrame, Zenon
      <4>4. p \in Seq(UpFrames) /\ Bounded(p, db.op) /\ Backed(p, db.op, receipts[r]) /\ ~Has(p)
        BY <4>2, <4>3, JoinOf, JoinKeeps, Zenon
      <4>. HIDE DEF p
      <4>. QED BY <2>2, <4>1, <4>4, <1>Sends
    <3>. QED BY <2>1, <3>1, <3>2, <3>3
  <2>9. exporting' \in [Runners -> Exported] /\ Exports'
    <3>1. /\ exporting' \in [Runners -> Exported]
          /\ \A s \in Runners : exporting'[s] = NoExport \/ exporting'[s] = exporting[s] \/ exporting'[s] = x
      BY <2>1, <2>2, <2>5, NoneOf, SetAt
    <3>2. \A s \in Runners : exporting'[s].phase # "off" => exporting'[s].op \in 1..db'.op
      BY <2>1, <2>2, <2>4, <2>5, <3>1, NoneOf DEF Exports
    <3>. QED BY <3>1, <3>2, Zenon DEF Exports
  <2>10. budget' \in [Bounds -> Nat]
    BY <2>1, <2>2, Spends DEF Bounds
  <2>11. Types'
    BY <2>1, <2>2, <2>8, <2>9, <2>10, Zenon DEF Types
  <2>. QED BY <2>1, <2>8, <2>9, <2>11, Rest, CalmRows, Zenon DEF store
(* What a Runner does to its store.                                        *)
<1>StoreKept. \A r \in Runners :
                RelocationInv /\ (\/ ServeAbort(r) \/ OpenExport(r) \/ ServeOpen(r) \/ ServeCommit(r) \/ ServeDelete(r)
                                  \/ CrashInStore(r))
                  => RelocationInv'
  <2>ReceiptAdded. ASSUME Types, NEW r \in Runners, NEW k \in ReceiptKinds, NEW n \in Nat,
                          receipts' = [receipts EXCEPT ![r] = receipts[r] \cup {<<k, n>>}]
                   PROVE  /\ receipts' \in [Runners -> SUBSET Receipts]
                          /\ receipts'[r] = receipts[r] \cup {<<k, n>>}
                          /\ \A s \in Runners : s # r => receipts'[s] = receipts[s]
    <3>. USE <2>ReceiptAdded
    <3>1. receipts \in [Runners -> SUBSET Receipts] /\ <<k, n>> \in Receipts
      BY Zenon DEF Types, Receipts, ReceiptKinds
    <3>2. receipts[r] \cup {<<k, n>>} \in SUBSET Receipts
      BY <3>1
    <3>. QED BY <3>1, <3>2, SetAt
  (* A command at the head of the queue that the loop serves itself.         *)
  <2>HeadCommand. ASSUME RelocationInv, NEW r \in Runners, Resumes(r)
                  PROVE  /\ down[r] # <<>> /\ Head(down[r]) \in DownFrames
                         /\ Head(down[r]).type = "command" /\ Head(down[r]).name \in Names /\ Head(down[r]).op \in Nat
    <3>. USE <2>HeadCommand
    <3>1. down[r] # <<>> /\ Head(down[r]).type = "command"
      BY DEF Resumes, Inline
    <3>2. Head(down[r]) \in DownFrames
      BY <3>1, Rest, <1>Takes
    <3>. QED BY <3>1, <3>2, <1>DownOf
  <2>MarkedKept. ASSUME RelocationInv, Types', db' = db, made' = made, Imports, Exports', Routes',
                        Marked, NEW any, Flow(up, up', receipts'), Flow(down, down', any), Left(receipts')
                 PROVE  RelocationInv'
    <3>. USE <2>MarkedKept
    <3>1. Types /\ OpsInv /\ DelInv /\ ImportInv /\ HomeInv /\ BackInv /\ db \in Rows /\ RowInv(db)
      BY Rest
    <3>2. Same(db, db') /\ Quiet(db, db') /\ RowInv(db') /\ db'.op = db.op
      BY <3>1, QuietRefl DEF Same
    <3>3. db.home \in Runners /\ db.target \in Runners /\ made[db.home] \in Nat
      BY <3>1, RowFields, Zenon DEF Types
    <3>4. OpsInv' /\ DelInv'
      BY <3>1, <3>2, OpsKept, DelKept
    <3>5. BackInv'
      <4>1. Grown
        BY <3>3, Zenon DEF Grown, Marked
      <4>. QED BY <3>1, <3>2, <4>1, BackKept
    <3>6. ImportInv'
      <4>1. \A s \in Runners : importing'[s].op # 0 => image'[s] = "none"
        BY <3>1, Zenon DEF ImportInv, Imports, Marked
      <4>2. \A s \in Runners : \A n \in Nat : <<"import", n>> \in receipts'[s] => made'[s] = n /\ image'[s] # "none"
        BY <3>1, Zenon DEF ImportInv, Marked
      <4>. QED BY <4>1, <4>2, Zenon DEF ImportInv
    <3>7. HomeInv'
      <4>1. image'[db.home] # "none" /\ (made[db.home] # 0 => <<"import", made[db.home]>> \in receipts'[db.home])
        BY <3>1, <3>3, Zenon DEF HomeInv, Marked
      <4>2. image'[db'.home] # "none" /\ (made'[db'.home] # 0 => <<"import", made'[db'.home]>> \in receipts'[db'.home])
        BY <4>1
      <4>. QED BY <4>2, Zenon DEF HomeInv
    <3>. QED BY <3>2, <3>4, <3>5, <3>6, <3>7, Zenon DEF RelocationInv
  (* What one step may do to one Runner's image and receipts.                *)
  <2>MarkedAt. ASSUME Types, NEW r \in Runners, NEW v \in Images, v = "none" <=> image[r] = "none",
                      image' = [image EXCEPT ![r] = v],
                      \/ receipts' = receipts
                      \/ \E k \in ReceiptKinds \ {"import"}, n \in Nat :
                           receipts' = [receipts EXCEPT ![r] = receipts[r] \cup {<<k, n>>}]
               PROVE  image' \in [Runners -> Images] /\ receipts' \in [Runners -> SUBSET Receipts] /\ Marked
    <3>. USE <2>MarkedAt
    <3>1. image \in [Runners -> Images] /\ receipts \in [Runners -> SUBSET Receipts]
      BY Zenon DEF Types
    <3>2. image' \in [Runners -> Images] /\ \A s \in Runners : image'[s] = "none" <=> image[s] = "none"
      BY <3>1
    <3>3. CASE receipts' = receipts
      BY <3>1, <3>2, <3>3 DEF Marked
    <3>4. ASSUME NEW k \in ReceiptKinds, k # "import", NEW n \in Nat,
                 receipts' = [receipts EXCEPT ![r] = receipts[r] \cup {<<k, n>>}]
          PROVE  /\ receipts' \in [Runners -> SUBSET Receipts]
                 /\ \A s \in Runners : \A m \in Nat : <<"import", m>> \in receipts'[s] <=> <<"import", m>> \in receipts[s]
      <4>1. /\ receipts' \in [Runners -> SUBSET Receipts]
            /\ receipts'[r] = receipts[r] \cup {<<k, n>>}
            /\ \A s \in Runners : s # r => receipts'[s] = receipts[s]
        BY <3>4, <2>ReceiptAdded, Zenon
      <4>2. \A m \in Nat : <<"import", m>> # <<k, n>>
        BY <3>4
      <4>. QED BY <4>1, <4>2
    <3>. QED BY <3>2, <3>3, <3>4, Zenon DEF Marked
  <2>ServeAbortKept. ASSUME RelocationInv, NEW r \in Runners, ServeAbort(r)
                     PROVE  RelocationInv'
    <3>. USE <2>ServeAbortKept
    <3>. DEFINE f == Head(down[r])  Answer(ok) == Result("abort", f.name, f.op, ok, TRUE)
    <3>1. /\ Resumes(r) /\ f.kind = "abort" /\ Next1(r) /\ busy' = [busy EXCEPT ![r] = FALSE]
          /\ \E ok \in BOOLEAN : Send(r, <<Answer(ok)>>)
          /\ \/ \E v \in {image[r], "open"} :
                  /\ v = image[r] \/ image[r] # "none"
                  /\ image' = [image EXCEPT ![r] = v]
                  /\ receipts' = [receipts EXCEPT ![r] = receipts[r] \cup {<<"abort", f.op>>}]
                  /\ budget' = budget
             \/ /\ Spend("fail") /\ receipts' = receipts
                /\ image' = image \/ (image[r] # "none" /\ image' = [image EXCEPT ![r] = "open"])
          /\ UNCHANGED <<db, link, routed, late, session, doomed, exporting, importing, made>>
      BY Zenon DEF ServeAbort, UnsealedOnly, store
    <3>2. Types /\ OpsInv /\ down[r] # <<>> /\ f.name \in Names /\ f.op \in Nat /\ image[r] \in Images
          /\ image \in [Runners -> Images]
      BY <3>1, Rest, <2>HeadCommand, Zenon DEF Types
    <3>3. down' \in [Runners -> Seq(DownFrames)] /\ Flow(down, down', receipts)
      BY <3>1, <3>2, <1>Takes, Zenon
    <3>4. up' \in [Runners -> Seq(UpFrames)] /\ Flow(up, up', receipts')
      <4>1. PICK ok \in BOOLEAN : Send(r, <<Answer(ok)>>)
        BY <3>1, Zenon
      <4>2. "abort" \in Kinds /\ "abort" # "delete" /\ TRUE \in BOOLEAN
        BY DEF Kinds
      <4>3. Answer(ok) \in UpFrames /\ Within(Answer(ok), db.op) /\ ~Success(Answer(ok), db.op) /\ ~Deletion(Answer(ok))
        BY <3>2, <4>2, <1>ResultOf, Zenon
      <4>. HIDE DEF Answer
      <4>. QED BY <3>2, <4>1, <4>3, <1>Replies, Zenon
    <3>5. image' \in [Runners -> Images] /\ receipts' \in [Runners -> SUBSET Receipts] /\ Marked
      <4>1. CASE image' = image /\ receipts' = receipts
        BY <3>2, <4>1, Zenon DEF Types, Marked
      <4>2. ASSUME NEW v \in {image[r], "open"}, v = image[r] \/ image[r] # "none",
                   image' = [image EXCEPT ![r] = v],
                   receipts' = [receipts EXCEPT ![r] = receipts[r] \cup {<<"abort", f.op>>}]
            PROVE  image' \in [Runners -> Images] /\ receipts' \in [Runners -> SUBSET Receipts] /\ Marked
        <5>1. v \in Images /\ (v = "none" <=> image[r] = "none") /\ "abort" \in ReceiptKinds \ {"import"}
          BY <3>2, <4>2 DEF Images, ReceiptKinds
        <5>. QED BY <3>2, <4>2, <5>1, <2>MarkedAt, Zenon
      <4>3. CASE image[r] # "none" /\ image' = [image EXCEPT ![r] = "open"] /\ receipts' = receipts
        <5>1. "open" \in Images /\ "open" # "none"
          BY DEF Images
        <5>. QED BY <3>2, <4>3, <5>1, <2>MarkedAt, Zenon
      <4>. QED BY <3>1, <4>1, <4>2, <4>3
    <3>6. busy' \in [Runners -> BOOLEAN] /\ budget' \in [Bounds -> Nat]
      BY <3>1, <3>2, SetAt, Spends, Zenon DEF Types, Bounds
    <3>7. Types'
      BY <3>1, <3>2, <3>3, <3>4, <3>5, <3>6, Zenon DEF Types
    <3>8. Imports /\ Exports' /\ Routes' /\ Left(receipts')
      BY <3>1, Rest
    <3>. QED BY <3>1, <3>3, <3>4, <3>5, <3>7, <3>8, <2>MarkedKept
  <2>OpenExportKept. ASSUME RelocationInv, NEW r \in Runners, OpenExport(r)
                     PROVE  RelocationInv'
    <3>. USE <2>OpenExportKept
    <3>TwoFrames. ASSUME NEW S, NEW f \in S, NEW g \in S, NEW n, NEW held, Within(f, n), Within(g, n),
                         ~Success(f, n), ~Success(g, n), ~Deletion(f), ~Deletion(g)
                  PROVE  <<f, g>> \in Seq(S) /\ Bounded(<<f, g>>, n) /\ Backed(<<f, g>>, n, held) /\ ~Has(<<f, g>>)
      <4>. USE <3>TwoFrames
      <4>1. <<f, g>> \in Seq(S) /\ \A i \in 1..Len(<<f, g>>) : <<f, g>>[i] \in {f, g}
        OBVIOUS
      <4>2. \A i \in 1..Len(<<f, g>>) :
              Within(<<f, g>>[i], n) /\ ~Success(<<f, g>>[i], n) /\ ~Deletion(<<f, g>>[i])
        <5>. SUFFICES ASSUME NEW i \in 1..Len(<<f, g>>)
                      PROVE  Within(<<f, g>>[i], n) /\ ~Success(<<f, g>>[i], n) /\ ~Deletion(<<f, g>>[i])
          OBVIOUS
        <5>1. <<f, g>>[i] = f \/ <<f, g>>[i] = g
          BY <4>1
        <5>. QED BY <5>1, Zenon
      <4>. QED BY <4>1, <4>2, Zenon DEF Bounded, Backed, Has
    <3>. DEFINE e == exporting[r]
                Answer(ok) == Result("export", e.name, e.op, ok, TRUE)
                open == Transfer("open", e.op, 1, TRUE)
                x == [e EXCEPT !.phase = "sending"]
    <3>1. /\ e.phase = "opening"
          /\ exporting' = [exporting EXCEPT ![r] = x] \/ exporting' = [exporting EXCEPT ![r] = NoExport]
          /\ \/ /\ image[r] # "none"
                /\ image' = [image EXCEPT ![r] = "sealed"]
                /\ receipts' = [receipts EXCEPT ![r] = receipts[r] \cup {<<"export", e.op>>}]
                /\ Send(r, <<Answer(TRUE), open>>) /\ budget' = budget
             \/ /\ Spend("fail") \/ budget' = budget
                /\ Send(r, <<Answer(FALSE)>>)
                /\ \/ image' = image /\ receipts' = receipts
                   \/ /\ image[r] # "none" /\ image' = [image EXCEPT ![r] = "sealed"]
                      /\ \/ receipts' = receipts
                         \/ receipts' = [receipts EXCEPT ![r] = receipts[r] \cup {<<"export", e.op>>}]
          /\ UNCHANGED <<db, link, down, late, routed, session, busy, doomed, importing, made>>
      BY DEF OpenExport, SealedOnly, store
    <3>2. /\ Types /\ Exports /\ exporting \in [Runners -> Exported] /\ e \in Exported /\ e.op \in Nat /\ e.name \in Names
      <4>1. Types /\ Exports /\ exporting \in [Runners -> Exported] /\ e \in Exported
        BY Rest, Zenon DEF Types
      <4>. QED BY <4>1 DEF Exported
    <3>3. e.op \in 1..db.op
      BY <3>1, <3>2 DEF Exports
    <3>4. x \in Exported /\ x.op = e.op
      BY <3>2 DEF Exported, Phases
    <3>5. /\ Answer(TRUE) \in UpFrames /\ Within(Answer(TRUE), db.op) /\ ~Success(Answer(TRUE), db.op) /\ ~Deletion(Answer(TRUE))
          /\ Answer(FALSE) \in UpFrames /\ Within(Answer(FALSE), db.op) /\ ~Success(Answer(FALSE), db.op) /\ ~Deletion(Answer(FALSE))
      <4>1. "export" \in Kinds /\ "export" # "delete" /\ TRUE \in BOOLEAN /\ FALSE \in BOOLEAN
        BY DEF Kinds
      <4>2. \A ok \in BOOLEAN : LET f == Answer(ok) IN f \in UpFrames /\ Within(f, db.op) /\ ~Success(f, db.op) /\ ~Deletion(f)
        BY <3>2, <4>1, <1>ResultOf, Zenon
      <4>. HIDE DEF Answer
      <4>. QED BY <4>1, <4>2, Zenon
    <3>6. open \in UpFrames /\ Within(open, db.op) /\ ~Success(open, db.op) /\ ~Deletion(open)
      <4>1. "open" \in Whats /\ "open" # "result" /\ 1 \in Nat
        BY DEF Whats
      <4>. QED BY <3>2, <3>3, <4>1, <1>TransferOf, Zenon
    <3>. HIDE DEF Answer, open, x
    <3>7. up' \in [Runners -> Seq(UpFrames)] /\ Flow(up, up', receipts')
      <4>1. CASE Send(r, <<Answer(FALSE)>>)
        BY <3>2, <3>5, <4>1, <1>Replies, Zenon
      <4>2. CASE Send(r, <<Answer(TRUE), open>>)
        <5>. DEFINE p == <<Answer(TRUE), open>>
        <5>1. p \in Seq(UpFrames) /\ Bounded(p, db.op) /\ Backed(p, db.op, receipts'[r]) /\ ~Has(p)
          BY <3>5, <3>6, <3>TwoFrames, Zenon
        <5>. HIDE DEF p
        <5>2. Send(r, p)
          BY <4>2 DEF p
        <5>. QED BY <3>2, <5>1, <5>2, <1>Sends
      <4>. QED BY <3>1, <4>1, <4>2
    <3>8. image' \in [Runners -> Images] /\ receipts' \in [Runners -> SUBSET Receipts] /\ Marked
      <4>1. CASE image' = image /\ receipts' = receipts
        BY <3>2, <4>1 DEF Types, Marked
      <4>2. CASE /\ image[r] # "none" /\ image' = [image EXCEPT ![r] = "sealed"]
                 /\ \/ receipts' = receipts
                    \/ receipts' = [receipts EXCEPT ![r] = receipts[r] \cup {<<"export", e.op>>}]
        <5>1. "sealed" \in Images /\ "sealed" # "none" /\ "export" \in ReceiptKinds \ {"import"}
          BY DEF Images, ReceiptKinds
        <5>. QED BY <3>2, <4>2, <5>1, <2>MarkedAt, Zenon
      <4>. QED BY <3>1, <4>1, <4>2
    <3>9. exporting' \in [Runners -> Exported] /\ Exports'
      <4>1. /\ exporting' \in [Runners -> Exported]
            /\ \A s \in Runners : exporting'[s] = NoExport \/ exporting'[s] = exporting[s] \/ exporting'[s] = x
        BY <3>1, <3>2, <3>4, NoneOf, SetAt
      <4>2. \A s \in Runners : exporting'[s].phase # "off" => exporting'[s].op \in 1..db'.op
        BY <3>1, <3>2, <3>3, <3>4, <4>1, NoneOf DEF Exports
      <4>. QED BY <4>1, <4>2, Zenon DEF Exports
    <3>10. budget' \in [Bounds -> Nat]
      BY <3>1, <3>2, Spends DEF Bounds
    <3>11. Types'
      BY <3>1, <3>2, <3>7, <3>8, <3>9, <3>10, Zenon DEF Types
    <3>12. Imports /\ Routes' /\ Flow(down, down', receipts) /\ Left(receipts')
      BY <3>1, Rest
    <3>. QED BY <3>1, <3>7, <3>8, <3>9, <3>11, <3>12, <2>MarkedKept
  <2>StoreAt. ASSUME RelocationInv, db' = db, NEW r \in Runners, ElseSame(r),
                     importing'[r].op # 0 => image'[r] = "none",
                     \A n \in Nat : <<"import", n>> \in receipts'[r] => made'[r] = n /\ image'[r] # "none",
                     r = db.home => image'[r] # "none" /\ (made'[r] # 0 => <<"import", made'[r]>> \in receipts'[r])
              PROVE  ImportInv' /\ HomeInv'
    <3>. USE <2>StoreAt
    <3>1. ImportInv /\ HomeInv /\ db.home \in Runners
      BY Rest, RowFields, Zenon
    <3>2. ASSUME NEW s \in Runners
          PROVE  /\ importing'[s].op # 0 => image'[s] = "none"
                 /\ \A n \in Nat : <<"import", n>> \in receipts'[s] => made'[s] = n /\ image'[s] # "none"
      BY <3>1, <3>2 DEF ImportInv, ElseSame
    <3>3. ImportInv'
      BY <3>2, Zenon DEF ImportInv
    <3>4. image'[db'.home] # "none" /\ (made'[db'.home] # 0 => <<"import", made'[db'.home]>> \in receipts'[db'.home])
      BY <3>1 DEF HomeInv, ElseSame
    <3>. QED BY <3>3, <3>4, Zenon DEF HomeInv
  <2>StoreStep. ASSUME RelocationInv, Types', db' = db, Exports', Routes', ImportInv', HomeInv', Grown,
                       NEW any, Flow(up, up', receipts'), Flow(down, down', any), Left(receipts')
                PROVE  RelocationInv'
    <3>. USE <2>StoreStep
    <3>1. Types /\ OpsInv /\ DelInv /\ BackInv /\ db \in Rows /\ RowInv(db)
      BY Rest
    <3>2. Same(db, db') /\ Quiet(db, db') /\ RowInv(db') /\ db'.op = db.op
      BY <3>1, QuietRefl DEF Same
    <3>3. OpsInv' /\ DelInv' /\ BackInv'
      BY <3>1, <3>2, OpsKept, DelKept, BackKept
    <3>. QED BY <3>2, <3>3, Zenon DEF RelocationInv
  (* Where no image is, there is no home and no receipt of an import.        *)
  <2>NoImage. ASSUME RelocationInv, NEW r \in Runners, image[r] = "none"
              PROVE  r # db.home /\ \A n \in Nat : <<"import", n>> \notin receipts[r]
    BY <2>NoImage, Rest, Zenon DEF HomeInv, ImportInv
  <2>ServeOpenKept. ASSUME RelocationInv, NEW r \in Runners, ServeOpen(r)
                    PROVE  RelocationInv'
    <3>. USE <2>ServeOpenKept
    <3>. DEFINE n == Head(down[r]).op
    <3>1. /\ Receives(r) /\ Head(down[r]).type = "transfer" /\ Next1(r)
          /\ \/ /\ Holds(r, "import", n) /\ Importing(r, 0) /\ Reply(r, "result", 1, TRUE)
                /\ UNCHANGED <<image, made, receipts, budget>>
             \/ /\ ~Holds(r, "import", n) /\ (image[r] = "none" \/ made[r] = n)
                /\ Importing(r, 1) /\ Reply(r, "credit", Window, TRUE)
                /\ image' = [image EXCEPT ![r] = "none"] /\ made' = [made EXCEPT ![r] = 0]
                /\ UNCHANGED <<receipts, budget>>
             \/ /\ Spend("fail") \/ budget' = budget
                /\ Importing(r, 0) /\ Reply(r, "result", 1, FALSE) /\ UNCHANGED <<image, made, receipts>>
          /\ UNCHANGED <<db, link, routed, late, session, busy, doomed, exporting>>
      BY Zenon DEF ServeOpen, IsTransfer, store
    <3>2. /\ Types /\ OpsInv /\ ImportInv /\ HomeInv /\ down[r] # <<>> /\ n \in Nat /\ n # 0
          /\ image \in [Runners -> Images] /\ made \in [Runners -> Nat]
      BY <3>1, Rest, <1>HeadTransfer, Zenon DEF Types
    <3>3. down' \in [Runners -> Seq(DownFrames)] /\ Flow(down, down', receipts)
      BY <3>1, <3>2, <1>Takes, Zenon
    <3>4. /\ "credit" \in Whats /\ "result" \in Whats /\ "credit" # "result" /\ 0 \in Nat /\ 1 \in Nat /\ Window \in Nat
          /\ TRUE \in BOOLEAN /\ FALSE \in BOOLEAN /\ 1 # 0
      BY RelocationAssumption DEF Whats
    <3>5. importing' \in [Runners -> Imported] /\ \A s \in Runners : s # r => importing'[s] = importing[s]
      BY <3>1, <3>4, <1>ImportsOn, Zenon
    <3>6. up' \in [Runners -> Seq(UpFrames)] /\ Flow(up, up', receipts)
      BY <3>1, <3>4, <1>RepliesTo, Zenon DEF Holds
    <3>7. Exports' /\ Routes' /\ Left(receipts)
      BY <3>1, Rest, Zenon
    <3>8. CASE UNCHANGED <<image, made, receipts>> /\ Importing(r, 0) /\ (Spend("fail") \/ budget' = budget)
      <4>1. Imports
        BY <3>1, <3>4, <3>5, <3>8, <1>ImportsOn, Zenon DEF Imports
      <4>2. budget' \in [Bounds -> Nat]
        BY <3>2, <3>8, Spends DEF Bounds
      <4>3. Types'
        BY <3>1, <3>2, <3>3, <3>5, <3>6, <3>8, <4>2, Zenon DEF Types
      <4>. QED BY <3>1, <3>3, <3>6, <3>7, <3>8, <4>1, <4>3, CalmRows, Zenon DEF store
    <3>9. CASE /\ ~Holds(r, "import", n) /\ (image[r] = "none" \/ made[r] = n)
               /\ image' = [image EXCEPT ![r] = "none"] /\ made' = [made EXCEPT ![r] = 0]
               /\ UNCHANGED <<receipts, budget>>
      <4>1. r # db.home /\ \A m \in Nat : <<"import", m>> \notin receipts[r]
        <5>1. CASE image[r] = "none"
          BY <5>1, <2>NoImage
        <5>2. CASE made[r] = n
          BY <3>2, <3>9, <5>2, Zenon DEF HomeInv, ImportInv, Holds
        <5>. QED BY <3>9, <5>1, <5>2, Zenon
      <4>2. /\ image' \in [Runners -> Images] /\ made' \in [Runners -> Nat] /\ image'[r] = "none"
            /\ \A s \in Runners : s # r => image'[s] = image[s] /\ made'[s] = made[s]
        BY <3>2, <3>4, <3>9 DEF Images
      <4>3. ElseSame(r)
        BY <3>5, <3>9, <4>2 DEF ElseSame
      <4>4. ImportInv' /\ HomeInv'
        BY <3>1, <3>9, <4>1, <4>2, <4>3, <2>StoreAt, Zenon
      <4>5. Types'
        BY <3>1, <3>2, <3>3, <3>5, <3>6, <3>9, <4>2, Zenon DEF Types
      <4>6. Grown /\ Flow(up, up', receipts') /\ Left(receipts')
        BY <3>6, <3>7, <3>9, Zenon DEF Grown
      <4>. QED BY <3>1, <3>3, <3>7, <4>4, <4>5, <4>6, <2>StoreStep, Zenon
    <3>. QED BY <3>1, <3>8, <3>9, Zenon
  <2>ServeCommitKept. ASSUME RelocationInv, NEW r \in Runners, ServeCommit(r)
                      PROVE  RelocationInv'
    <3>. USE <2>ServeCommitKept
    <3>. DEFINE n == Head(down[r]).op
    <3>1. /\ Receives(r) /\ Head(down[r]).type = "transfer" /\ Expected(r) /\ Next1(r) /\ Importing(r, 0)
          /\ \/ /\ image' = [image EXCEPT ![r] = "open"] /\ made' = [made EXCEPT ![r] = n]
                /\ receipts' = [receipts EXCEPT ![r] = receipts[r] \cup {<<"import", n>>}]
                /\ Reply(r, "result", 1, TRUE) /\ budget' = budget
             \/ /\ Spend("fail") \/ budget' = budget
                /\ Reply(r, "result", 1, FALSE) /\ UNCHANGED <<image, made, receipts>>
          /\ UNCHANGED <<db, link, routed, late, session, busy, doomed, exporting>>
      BY Zenon DEF ServeCommit, IsTransfer, store
    <3>2. /\ Types /\ OpsInv /\ ImportInv /\ down[r] # <<>> /\ n \in Nat /\ n # 0
          /\ image \in [Runners -> Images] /\ made \in [Runners -> Nat]
      BY <3>1, Rest, <1>HeadTransfer, Zenon DEF Types
    <3>3. down' \in [Runners -> Seq(DownFrames)] /\ Flow(down, down', receipts)
      BY <3>1, <3>2, <1>Takes, Zenon
    <3>4. "result" \in Whats /\ 0 \in Nat /\ 1 \in Nat /\ TRUE \in BOOLEAN /\ FALSE \in BOOLEAN
      BY DEF Whats
    <3>5. importing' \in [Runners -> Imported] /\ importing'[r].op = 0 /\ \A s \in Runners : s # r => importing'[s] = importing[s]
      BY <3>1, <3>4, <1>ImportsOn, Zenon
    <3>6. Imports /\ Exports' /\ Routes' /\ Left(receipts) /\ Left(receipts')
      BY <3>1, <3>5, Rest, Zenon DEF Imports
    <3>7. CASE UNCHANGED <<image, made, receipts>> /\ Reply(r, "result", 1, FALSE) /\ (Spend("fail") \/ budget' = budget)
      <4>1. up' \in [Runners -> Seq(UpFrames)] /\ Flow(up, up', receipts)
        BY <3>1, <3>4, <3>7, <1>RepliesTo, Zenon
      <4>2. budget' \in [Bounds -> Nat]
        BY <3>2, <3>7, Spends DEF Bounds
      <4>3. Types'
        BY <3>1, <3>2, <3>3, <3>5, <3>7, <4>1, <4>2, Zenon DEF Types
      <4>. QED BY <3>1, <3>3, <3>6, <3>7, <4>1, <4>3, CalmRows, Zenon DEF store
    <3>8. CASE /\ image' = [image EXCEPT ![r] = "open"] /\ made' = [made EXCEPT ![r] = n]
               /\ receipts' = [receipts EXCEPT ![r] = receipts[r] \cup {<<"import", n>>}]
               /\ Reply(r, "result", 1, TRUE) /\ budget' = budget
      <4>1. image[r] = "none"
        BY <3>1, <3>2, Zenon DEF Expected, ImportInv
      <4>2. r # db.home /\ \A m \in Nat : <<"import", m>> \notin receipts[r]
        BY <4>1, <2>NoImage
      <4>3. /\ receipts' \in [Runners -> SUBSET Receipts] /\ receipts'[r] = receipts[r] \cup {<<"import", n>>}
            /\ \A s \in Runners : s # r => receipts'[s] = receipts[s]
        <5>1. "import" \in ReceiptKinds
          BY DEF ReceiptKinds
        <5>. QED BY <3>2, <3>8, <5>1, <2>ReceiptAdded, Zenon
      <4>4. up' \in [Runners -> Seq(UpFrames)] /\ Flow(up, up', receipts')
        BY <3>1, <3>4, <3>8, <4>3, <1>RepliesTo, Zenon
      <4>5. /\ image' \in [Runners -> Images] /\ made' \in [Runners -> Nat] /\ image'[r] = "open" /\ made'[r] = n
            /\ \A s \in Runners : s # r => image'[s] = image[s] /\ made'[s] = made[s]
        BY <3>2, <3>8 DEF Images
      <4>6. ElseSame(r)
        BY <3>5, <4>3, <4>5 DEF ElseSame
      <4>7. \A m \in Nat : <<"import", m>> \in receipts'[r] => made'[r] = m /\ image'[r] # "none"
        BY <4>2, <4>3, <4>5
      <4>8. ImportInv' /\ HomeInv'
        BY <3>1, <3>5, <4>2, <4>6, <4>7, <2>StoreAt, Zenon
      <4>9. Types'
        BY <3>1, <3>2, <3>3, <3>5, <3>8, <4>3, <4>4, <4>5, Zenon DEF Types
      <4>10. Grown
        BY <3>2, <4>3, Rest, RowFields, Zenon DEF Grown
      <4>. QED BY <3>1, <3>3, <3>6, <4>4, <4>8, <4>9, <4>10, <2>StoreStep
    <3>. QED BY <3>1, <3>7, <3>8, Zenon
  (* A deletion on its way to a Runner: that is the source of a relocation   *)
  (* that committed, and neither the home nor the target.                    *)
  <2>DeletedWhere. ASSUME RelocationInv, NEW r \in Runners, Resumes(r), Head(down[r]).kind = "delete"
                   PROVE  /\ Has(down[r]) /\ Deletion(Head(down[r])) /\ Deleting(r) /\ ~Has(up[r])
                          /\ r = db.source /\ r # db.home /\ r # db.target
                          /\ \A s \in Runners : s # r => ~Has(up[s]) /\ ~Has(down[s])
    <3>. USE <2>DeletedWhere
    <3>1. Types /\ OpsInv /\ DelInv /\ RowInv(db) /\ down[r] # <<>> /\ Head(down[r]) \in DownFrames /\ Head(down[r]).type = "command"
      BY Rest, <2>HeadCommand
    <3>2. Deletion(Head(down[r])) /\ Has(down[r])
      BY <3>1, <1>DownOf, <1>Takes
    <3>3. Deleting(r) /\ ~Has(up[r])
      BY <3>1, <3>2, Zenon DEF DelInv
    <3>4. r = db.source /\ db.state = "deleting_source"
      BY <3>3, Zenon DEF Deleting
    <3>5. db.home = db.target /\ db.source # db.target
      BY <3>1, <3>4, Zenon DEF RowInv
    <3>6. \A s \in Runners : s # r => ~Has(up[s]) /\ ~Has(down[s])
      BY <3>1, <3>4, Zenon DEF DelInv, Deleting
    <3>. QED BY <3>2, <3>3, <3>4, <3>5, <3>6
  <2>ServeDeleteKept. ASSUME RelocationInv, NEW r \in Runners, ServeDelete(r)
                      PROVE  RelocationInv'
    <3>. USE <2>ServeDeleteKept
    <3>. DEFINE f == Head(down[r])
                kind == IF image[r] = "none" THEN "delete, no capacity" ELSE "delete"
                Answer(ok, full) == Result("delete", f.name, f.op, ok, full)
    <3>1. /\ Resumes(r) /\ f.kind = "delete" /\ Next1(r) /\ busy' = [busy EXCEPT ![r] = FALSE]
          /\ \E ok \in BOOLEAN, full \in BOOLEAN : Send(r, <<Answer(ok, full)>>)
          /\ \/ UNCHANGED <<image, made, receipts>>
             \/ /\ image' = [image EXCEPT ![r] = "none"] /\ made' = [made EXCEPT ![r] = 0]
                /\ \E left \in {{}, {<<kind, f.op>>}} : receipts' = [receipts EXCEPT ![r] = left]
          /\ budget' = budget \/ Spend("fail")
          /\ UNCHANGED <<db, link, routed, late, session, doomed, exporting, importing>>
      <4>1. (<<"delete", f.op>> \in receipts'[r]) \in BOOLEAN
        OBVIOUS
      <4>. QED BY <4>1, Zenon DEF ServeDelete, RemovedOnly, store
    <3>2. /\ Types /\ OpsInv /\ DelInv /\ ImportInv /\ BackInv /\ db \in Rows /\ RowInv(db)
          /\ down[r] # <<>> /\ f.name \in Names /\ f.op \in Nat
          /\ image \in [Runners -> Images] /\ made \in [Runners -> Nat] /\ receipts \in [Runners -> SUBSET Receipts]
          /\ down[r] \in Seq(DownFrames) /\ up \in [Runners -> Seq(UpFrames)] /\ up[r] \in Seq(UpFrames)
          /\ db.target \in Runners
      <4>1. Types /\ OpsInv /\ DelInv /\ ImportInv /\ BackInv /\ db \in Rows /\ RowInv(db)
        BY Rest
      <4>2. down[r] # <<>> /\ f.name \in Names /\ f.op \in Nat /\ db.target \in Runners
        BY <3>1, <4>1, <2>HeadCommand, RowFields, Zenon
      <4>. QED BY <4>1, <4>2, Zenon DEF Types
    <3>3. /\ Has(down[r]) /\ Deletion(f) /\ Deleting(r) /\ ~Has(up[r]) /\ r # db.home /\ r # db.target
          /\ \A s \in Runners : s # r => ~Has(up[s]) /\ ~Has(down[s])
      BY <3>1, <2>DeletedWhere, Zenon
    <3>4. /\ down' \in [Runners -> Seq(DownFrames)] /\ Flow(down, down', receipts) /\ down'[r] = Tail(down[r])
          /\ \A s \in Runners : s # r => down'[s] = down[s]
      BY <3>1, <3>2, <1>Takes, Zenon
    <3>5. ~Has(down'[r])
      BY <3>2, <3>3, <3>4, TailKeeps, Zenon DEF DelInv
    <3>6. /\ up' \in [Runners -> Seq(UpFrames)] /\ Bounded(up'[r], db.op) /\ Lone(up'[r])
          /\ \A s \in Runners : s # r => up'[s] = up[s]
      <4>1. PICK ok \in BOOLEAN, full \in BOOLEAN : Send(r, <<Answer(ok, full)>>)
        BY <3>1, Zenon
      <4>. DEFINE a == Answer(ok, full)
      <4>2. a \in UpFrames /\ Within(a, db.op)
        <5>1. "delete" \in Kinds
          BY DEF Kinds
        <5>. QED BY <3>2, <5>1, <1>ResultOf, Zenon
      <4>. HIDE DEF a
      <4>3. <<a>> \in Seq(UpFrames) /\ Bounded(<<a>>, db.op) /\ Lone(<<a>>)
        BY <4>2, OneFrame, Zenon
      <4>4. Bounded(up[r], db.op) /\ Lone(up[r])
        BY <3>2, Zenon DEF OpsInv, DelInv
      <4>5. up[r] \o <<a>> \in Seq(UpFrames) /\ Bounded(up[r] \o <<a>>, db.op) /\ Lone(up[r] \o <<a>>)
        <5>1. up[r] \o <<a>> \in Seq(UpFrames)
          BY <3>2, <4>3, JoinOf, Zenon
        <5>2. Bounded(up[r] \o <<a>>, db.op) /\ Lone(up[r] \o <<a>>)
          BY <3>2, <3>3, <4>3, <4>4, JoinKeeps, Zenon
        <5>. QED BY <5>1, <5>2
      <4>6. CASE up' = up
        BY <3>2, <4>4, <4>6
      <4>7. CASE up' = [up EXCEPT ![r] = up[r] \o <<a>>]
        BY <3>2, <4>5, <4>7, SetAt
      <4>. QED BY <4>1, <4>6, <4>7 DEF Send, a
    <3>7. /\ image' \in [Runners -> Images] /\ made' \in [Runners -> Nat] /\ receipts' \in [Runners -> SUBSET Receipts]
          /\ \A s \in Runners : s # r => image'[s] = image[s] /\ made'[s] = made[s] /\ receipts'[s] = receipts[s]
          /\ importing'[r].op # 0 => image'[r] = "none"
          /\ \A n \in Nat : <<"import", n>> \in receipts'[r] => made'[r] = n /\ image'[r] # "none"
      <4>1. CASE UNCHANGED <<image, made, receipts>>
        BY <3>1, <3>2, <4>1, Zenon DEF ImportInv
      <4>2. ASSUME NEW left \in {{}, {<<kind, f.op>>}},
                   image' = [image EXCEPT ![r] = "none"], made' = [made EXCEPT ![r] = 0],
                   receipts' = [receipts EXCEPT ![r] = left]
            PROVE  /\ image' \in [Runners -> Images] /\ made' \in [Runners -> Nat] /\ receipts' \in [Runners -> SUBSET Receipts]
                   /\ \A s \in Runners : s # r => image'[s] = image[s] /\ made'[s] = made[s] /\ receipts'[s] = receipts[s]
                   /\ importing'[r].op # 0 => image'[r] = "none"
                   /\ \A n \in Nat : <<"import", n>> \in receipts'[r] => made'[r] = n /\ image'[r] # "none"
        <5>0. kind \in ReceiptKinds /\ kind # "import" /\ \A k \in ReceiptKinds : <<k, f.op>> \in Receipts
          BY <3>2, Zenon DEF Receipts, ReceiptKinds
        <5>. HIDE DEF kind
        <5>1. left \in SUBSET Receipts /\ \A n \in Nat : <<"import", n>> \notin left
          BY <4>2, <5>0
        <5>2. /\ receipts' \in [Runners -> SUBSET Receipts] /\ receipts'[r] = left
              /\ \A s \in Runners : s # r => receipts'[s] = receipts[s]
          BY <3>2, <4>2, <5>1, SetAt
        <5>3. /\ image' \in [Runners -> Images] /\ made' \in [Runners -> Nat] /\ image'[r] = "none"
              /\ \A s \in Runners : s # r => image'[s] = image[s] /\ made'[s] = made[s]
          BY <3>2, <4>2 DEF Images
        <5>. QED BY <5>1, <5>2, <5>3
      <4>. QED BY <3>1, <4>1, <4>2, Zenon
    <3>8. ImportInv' /\ HomeInv'
      BY <3>1, <3>3, <3>7, <2>StoreAt, Zenon DEF ElseSame
    <3>9. busy' \in [Runners -> BOOLEAN] /\ budget' \in [Bounds -> Nat]
      BY <3>1, <3>2, SetAt, Spends, Zenon DEF Types, Bounds
    <3>10. Types'
      BY <3>1, <3>2, <3>4, <3>6, <3>7, <3>9, Zenon DEF Types
    <3>11. OpsInv'
      <4>1. \A s \in Runners : Bounded(up[s], db.op) /\ Bounded(late[s], db.op) /\ Bounded(down[s], db.op)
        BY <3>2, Zenon DEF OpsInv
      <4>2. \A s \in Runners : Bounded(up'[s], db.op) /\ Bounded(late[s], db.op) /\ Bounded(down'[s], db.op)
        BY <3>4, <3>6, <4>1, Zenon DEF Flow, Kept
      <4>3. \A s \in Runners : Bounded(up'[s], db'.op) /\ Bounded(late'[s], db'.op) /\ Bounded(down'[s], db'.op)
        BY <3>1, <4>2, Zenon
      <4>4. Exports' /\ Routes'
        BY <3>1, Rest, Zenon
      <4>. QED BY <4>3, <4>4, Zenon DEF OpsInv, Exports, Routes
    <3>12. DelInv'
      <4>1. \A s \in Runners : Lone(down'[s]) /\ Lone(up'[s]) /\ ~Has(down'[s]) /\ (Has(up'[s]) => s = r)
        <5>1. ASSUME NEW s \in Runners
              PROVE  Lone(down'[s]) /\ Lone(up'[s]) /\ ~Has(down'[s]) /\ (Has(up'[s]) => s = r)
          <6>1. Lone(down[s]) /\ Lone(up[s]) /\ Kept(down[s], down'[s], db.op, receipts[s])
            BY <3>2, <3>4, Zenon DEF DelInv, Flow
          <6>2. Lone(down'[s])
            BY <6>1, Zenon DEF Kept
          <6>. QED BY <3>3, <3>4, <3>5, <3>6, <6>1, <6>2, Zenon
        <5>. QED BY <5>1
      <4>2. Deleting(r)'
        BY <3>1, <3>3, Zenon DEF Deleting
      <4>. QED BY <4>1, <4>2, Zenon DEF DelInv
    <3>13. BackInv'
      <4>1. /\ up'[db.target] = up[db.target] /\ late' = late /\ receipts'[db.target] = receipts[db.target] /\ db' = db
        BY <3>1, <3>2, <3>3, <3>6, <3>7, Zenon
      <4>2. Backed(up'[db'.target], db'.op, receipts'[db'.target]) /\ Backed(late'[db'.target], db'.op, receipts'[db'.target])
        BY <3>2, <4>1, Zenon DEF BackInv
      <4>. QED BY <4>2, Zenon DEF BackInv
    <3>14. RowInv(db')
      BY <3>1, <3>2, Zenon
    <3>. QED BY <3>8, <3>10, <3>11, <3>12, <3>13, <3>14, Zenon DEF RelocationInv
  (* A crash between a change and its receipt.                               *)
  <2>CrashInStoreKept. ASSUME RelocationInv, NEW r \in Runners, CrashInStore(r)
                       PROVE  RelocationInv'
    <3>. USE <2>CrashInStoreKept
    <3>. DEFINE f == Head(down[r])
    <3>1. /\ Leave(r) /\ Spend("torn")
          /\ \/ /\ image[r] # "none" /\ made' = made /\ receipts' = receipts
                /\ \E v \in {"open", "sealed"} : image' = [image EXCEPT ![r] = v]
             \/ /\ Resumes(r) /\ f.kind = "delete"
                /\ image' = [image EXCEPT ![r] = "none"] /\ made' = [made EXCEPT ![r] = 0]
                /\ receipts' = [receipts EXCEPT ![r] = {}]
             \/ /\ Receives(r) /\ f.type = "transfer" /\ Expected(r)
                /\ image' = [image EXCEPT ![r] = "open"] /\ made' = [made EXCEPT ![r] = f.op]
                /\ receipts' = receipts
      BY Zenon DEF CrashInStore, IsTransfer, SealedOnly, UnsealedOnly, RemovedOnly
    <3>2. /\ Types /\ OpsInv /\ ImportInv /\ db.target \in Runners
          /\ image \in [Runners -> Images] /\ made \in [Runners -> Nat] /\ receipts \in [Runners -> SUBSET Receipts]
      <4>1. Types /\ OpsInv /\ ImportInv /\ db.target \in Runners
        BY Rest, RowFields, Zenon
      <4>. QED BY <4>1 DEF Types
    <3>3. /\ UNCHANGED <<db, up, late, routed>>
          /\ session' \in [Runners -> BOOLEAN] /\ busy' \in [Runners -> BOOLEAN] /\ doomed' \in [Runners -> BOOLEAN]
          /\ exporting' \in [Runners -> Exported] /\ importing' \in [Runners -> Imported]
          /\ link' \in [Runners -> Links] /\ down' \in [Runners -> Seq(DownFrames)]
          /\ Exports' /\ Flow(down, down', receipts)
          /\ importing'[r].op = 0 /\ \A s \in Runners : s # r => importing'[s] = importing[s]
      BY <3>1, <1>Leaves, Zenon
    <3>4. Imports /\ Routes' /\ Flow(up, up', receipts') /\ Left(receipts') /\ budget' \in [Bounds -> Nat]
      <4>1. Imports
        BY <3>3, Zenon DEF Imports
      <4>2. budget' \in [Bounds -> Nat]
        BY <3>1, <3>2, Spends DEF Bounds
      <4>. QED BY <3>3, <4>1, <4>2, Rest, Zenon
    <3>5. image' \in [Runners -> Images] /\ made' \in [Runners -> Nat] /\ receipts' \in [Runners -> SUBSET Receipts] => Types'
      BY <3>2, <3>3, <3>4, Zenon DEF Types
    <3>6. ASSUME NEW v \in {"open", "sealed"}, image[r] # "none", image' = [image EXCEPT ![r] = v],
                 made' = made, receipts' = receipts
          PROVE  RelocationInv'
      <4>1. v \in Images /\ v # "none"
        BY DEF Images
      <4>2. image' \in [Runners -> Images] /\ receipts' \in [Runners -> SUBSET Receipts] /\ Marked
        BY <3>2, <3>6, <4>1, <2>MarkedAt, Zenon
      <4>3. Types'
        BY <3>2, <3>5, <3>6, <4>2
      <4>. QED BY <3>3, <3>4, <3>6, <4>2, <4>3, <2>MarkedKept, Zenon
    <3>7. CASE /\ Resumes(r) /\ f.kind = "delete"
               /\ image' = [image EXCEPT ![r] = "none"] /\ made' = [made EXCEPT ![r] = 0]
               /\ receipts' = [receipts EXCEPT ![r] = {}]
      <4>1. r # db.home /\ r # db.target
        BY <3>7, <2>DeletedWhere
      <4>2. /\ image' \in [Runners -> Images] /\ made' \in [Runners -> Nat] /\ receipts' \in [Runners -> SUBSET Receipts]
            /\ receipts'[r] = {}
            /\ \A s \in Runners : s # r => image'[s] = image[s] /\ made'[s] = made[s] /\ receipts'[s] = receipts[s]
        BY <3>2, <3>7 DEF Images
      <4>3. ElseSame(r)
        BY <3>3, <4>2, Zenon DEF ElseSame
      <4>4. ImportInv' /\ HomeInv'
        BY <3>3, <4>1, <4>2, <4>3, <2>StoreAt, Zenon
      <4>5. Grown
        BY <3>2, <4>1, <4>2 DEF Grown
      <4>. QED BY <3>3, <3>4, <3>5, <4>2, <4>4, <4>5, <2>StoreStep
    <3>8. CASE /\ Receives(r) /\ f.type = "transfer" /\ Expected(r)
               /\ image' = [image EXCEPT ![r] = "open"] /\ made' = [made EXCEPT ![r] = f.op]
               /\ receipts' = receipts
      <4>1. f.op \in Nat /\ f.op # 0
        BY <3>8, <1>HeadTransfer
      <4>2. image[r] = "none"
        BY <3>2, <3>8, <4>1 DEF Expected, ImportInv
      <4>3. r # db.home /\ \A m \in Nat : <<"import", m>> \notin receipts[r]
        BY <4>2, <2>NoImage
      <4>4. /\ image' \in [Runners -> Images] /\ made' \in [Runners -> Nat] /\ receipts' \in [Runners -> SUBSET Receipts]
            /\ \A s \in Runners : s # r => image'[s] = image[s] /\ made'[s] = made[s] /\ receipts'[s] = receipts[s]
        BY <3>2, <3>8, <4>1 DEF Images
      <4>5. ElseSame(r)
        BY <3>3, <4>4, Zenon DEF ElseSame
      <4>6. ImportInv' /\ HomeInv'
        BY <3>3, <3>8, <4>3, <4>5, <2>StoreAt, Zenon
      <4>7. Grown
        BY <3>8 DEF Grown
      <4>. QED BY <3>3, <3>4, <3>5, <4>4, <4>6, <4>7, <2>StoreStep, Zenon
    <3>. QED BY <3>1, <3>6, <3>7, <3>8
  <2>. QED BY <2>ServeAbortKept, <2>OpenExportKept, <2>ServeOpenKept, <2>ServeCommitKept, <2>ServeDeleteKept, <2>CrashInStoreKept, Zenon
<1>. QED BY <1>WaitKept, <1>ServeReconcileKept, <1>ServeExportKept, <1>ServeChunkKept, <1>ServeCreditKept, <1>ServeResultKept,
   <1>LeavesKept, <1>SendChunkKept, <1>BreakKept, <1>StoreKept, Zenon DEF Loop, Export, Faults

LEMMA QuietTrans ==
  ASSUME NEW d, NEW e, NEW g, Quiet(d, e), Quiet(e, g)
  PROVE  Quiet(d, g)
BY DEF Quiet, Same

(* A new command of the relocation the row is about.                       *)
Enqueued(d, e, kind) ==
  /\ e \in Rows /\ RowInv(e) /\ Same(d, e) /\ e.home = d.home /\ e.state = d.state /\ e.slot = d.slot
  /\ \A c \in e.cmds : c \in d.cmds \/ c.kind = kind

LEMMA QueuedRows ==
  ASSUME NEW d \in Rows, RowInv(d), d.state # "none",
         NEW kind \in Kinds, NEW name \in Names, NEW corr \in Runners,
         kind = "delete" => name = "cleanup" /\ d.state = "deleting_source" /\ NoDeletion(d)
  PROVE  Enqueued(d, Queued(d, kind, name, corr), kind)
<1>. DEFINE new == [kind |-> kind, name |-> name, op |-> d.op, corr |-> corr,
                    to |-> d.source, state |-> "pending"]
            e == Queued(d, kind, name, corr)
<1>1. new \in Cmds /\ new.kind = kind /\ new.name = name /\ new.op = d.op /\ new.to = d.source
  BY RowFields, Zenon DEF Cmds, Claims
<1>0. d.op # 0
  BY Zenon DEF RowInv
<1>2. d.op \in 1..d.op
  BY <1>0, RowFields
<1>. HIDE DEF new
<1>3. e = [d EXCEPT !.cmds = @ \cup {new}]
  BY DEF Queued, new
<1>a. d.cmds \cup {new} \in Queues
  BY <1>1, RowFields DEF Queues
<1>4. /\ e \in Rows /\ e.cmds = d.cmds \cup {new}
      /\ Same(d, e) /\ e.home = d.home /\ e.state = d.state /\ e.slot = d.slot
  BY <1>3, <1>a DEF Rows, Same
<1>5. RowInv(e)
  BY <1>1, <1>2, <1>4, Zenon DEF RowInv, Same, NoDeletion
<1>6. \A c \in e.cmds : c \in d.cmds \/ c.kind = kind
  BY <1>1, <1>4
<1>. QED BY <1>4, <1>5, <1>6 DEF Enqueued

(* The transactions of a relocation.                                       *)
LEMMA AbortedRows ==
  ASSUME NEW d \in Rows, RowInv(d), d.state \in {"queued", "source_sealed"}
  PROVE  Quiet(d, Aborted(d))
<1>. DEFINE b == [d EXCEPT !.state = "aborting", !.effect = "cleanup",
                   !.slot = IF d.state = "source_sealed" THEN "aborting_source_sealed" ELSE "aborting"]
            e == Queued(b, "abort", "cleanup", b.source)
<1>1. /\ b \in Rows /\ b.cmds = d.cmds /\ Same(d, b) /\ b.home = d.home /\ b.state = "aborting"
      /\ b.slot # "" /\ b.source = d.source
  BY RowFields, Zenon DEF Rows, Same, Names, States, Slots
<1>2. RowInv(b)
  BY <1>1, Zenon DEF RowInv, Same
<1>3. Aborted(d) = e
  BY <1>1 DEF Aborted
<1>. HIDE DEF b
<1>a. b \in Rows /\ RowInv(b) /\ b.state # "none" /\ b.source \in Runners
  BY <1>1, <1>2, RowFields, Zenon
<1>b. "abort" \in Kinds /\ "cleanup" \in Names /\ "abort" # "delete"
  BY <1>1, <1>2, Zenon DEF Kinds, Names
<1>4. Enqueued(b, e, "abort")
  BY <1>a, <1>b, QueuedRows, Zenon
<1>. HIDE DEF e
<1>. QED BY <1>1, <1>3, <1>4, Zenon DEF Enqueued, Quiet, Same

(* recordLocalWorkspaceRelocationResult.                                   *)
LEMMA RecordedRows ==
  ASSUME NEW d \in Rows, RowInv(d), NEW r, NEW f, NEW e \in Recorded(d, r, f)
  PROVE  Quiet(d, e) \/ (Cleaned(d, e) /\ r = d.source /\ f.kind = "delete")
(* An acknowledgement takes commands away.                                 *)
<1>AckedRows. ASSUME NEW d0 \in Rows, RowInv(d0), NEW name
              PROVE  /\ Quiet(d0, Acked(d0, name))
                     /\ Acked(d0, name).state = d0.state /\ Acked(d0, name).slot = d0.slot
                     /\ d0.state = "deleting_source" /\ name = "cleanup" => NoDeletion(Acked(d0, name))
  <2>. USE <1>AckedRows
  <2>. DEFINE e0 == Acked(d0, name)
  <2>0. {c \in d0.cmds : c.name # name \/ c.op # d0.op} \in Queues
    BY RowFields DEF Queues
  <2>1. /\ e0 \in Rows /\ e0.cmds = {c \in d0.cmds : c.name # name \/ c.op # d0.op}
        /\ Same(d0, e0) /\ e0.home = d0.home /\ e0.state = d0.state /\ e0.slot = d0.slot
    BY <2>0, Zenon DEF Acked, Rows, Same
  <2>2. RowInv(e0)
    BY <2>1, Zenon DEF RowInv, Same
  <2>3. d0.state = "deleting_source" /\ name = "cleanup" => NoDeletion(e0)
    BY <2>1, Zenon DEF RowInv, NoDeletion
  <2>. HIDE DEF e0
  <2>4. Quiet(d0, e0)
    BY <2>1, <2>2 DEF Quiet
  <2>. QED BY <2>1, <2>3, <2>4, Zenon DEF e0
<1>SealedRows. ASSUME NEW d0 \in Rows, RowInv(d0), d0.state = "queued", d0.slot # ""
               PROVE  Quiet(d0, Sealed(d0))
  <2>. USE <1>SealedRows
  <2>. DEFINE o == IF d0.operation = "pending" THEN "running" ELSE d0.operation
              e0 == [d0 EXCEPT !.state = "source_sealed", !.slot = "source_sealed", !.operation = o]
  <2>0. o \in Outcomes
    BY RowFields, Zenon DEF Outcomes
  <2>. HIDE DEF o
  <2>1. /\ e0 \in Rows /\ e0.cmds = d0.cmds /\ Same(d0, e0) /\ e0.home = d0.home /\ e0.state = "source_sealed"
        /\ e0.slot # ""
    BY <2>0, Zenon DEF Rows, Same, Names, States, Slots
  <2>3. e0 = Sealed(d0)
    BY Zenon DEF Sealed, o
  <2>2. RowInv(e0)
    BY <2>1, Zenon DEF RowInv, Same
  <2>. HIDE DEF e0
  <2>. QED BY <2>1, <2>2, <2>3, Zenon DEF Quiet
<1>ReleasedRows. ASSUME NEW d0 \in Rows, RowInv(d0), NoDeletion(d0), d0.state # "none", NEW verdict \in {"succeeded", "failed"}
                 PROVE  LET e0 == Released(d0, verdict) IN
                        /\ e0 \in Rows /\ RowInv(e0) /\ Same(d0, e0) /\ e0.home = d0.home
                        /\ e0.state = verdict /\ e0.cmds = d0.cmds
  <2>. USE <1>ReleasedRows
  <2>. DEFINE o == IF d0.operation \in {"pending", "running"} THEN verdict ELSE d0.operation
              e0 == [d0 EXCEPT !.slot = "", !.effect = "", !.state = verdict, !.operation = o]
  <2>0. o \in Outcomes
    BY RowFields DEF Outcomes
  <2>. HIDE DEF o
  <2>1. /\ e0 \in Rows /\ e0.cmds = d0.cmds /\ Same(d0, e0) /\ e0.home = d0.home /\ e0.state = verdict
    BY <2>0, Zenon DEF Rows, Same, Names, States, Slots
  <2>3. e0 = Released(d0, verdict)
    BY Zenon DEF Released, o
  <2>2. RowInv(e0)
    BY <2>1, Zenon DEF RowInv, Same, Ended, NoDeletion
  <2>. HIDE DEF e0
  <2>. QED BY <2>1, <2>2, <2>3
<1>RetriedRows. ASSUME NEW d0 \in Rows, RowInv(d0), d0.state # "none", NEW kind \in {"abort", "delete"},
                       kind = "delete" => d0.state = "deleting_source" /\ NoDeletion(d0)
                PROVE  Enqueued(d0, Retried(d0, kind), kind)
  <2>. USE <1>RetriedRows
  <2>. DEFINE b == [d0 EXCEPT !.effect = "cleanup"]
              e0 == Queued(b, kind, "cleanup", b.source)
  <2>1. /\ b \in Rows /\ b.cmds = d0.cmds /\ Same(d0, b) /\ b.home = d0.home /\ b.state = d0.state
        /\ b.slot = d0.slot /\ b.source = d0.source
    BY RowFields, Zenon DEF Rows, Same, Names
  <2>2. RowInv(b)
    BY <2>1, Zenon DEF RowInv, Same
  <2>3. Retried(d0, kind) = e0
    BY <2>1 DEF Retried
  <2>. HIDE DEF b
  <2>a. b.source \in Runners /\ b.state # "none"
    BY <2>1, RowFields
  <2>b. kind \in Kinds /\ "cleanup" \in Names
    BY DEF Kinds, Names
  <2>c. kind = "delete" => b.state = "deleting_source" /\ NoDeletion(b)
    BY <2>1, Zenon DEF NoDeletion
  <2>4. Enqueued(b, e0, kind)
    BY <2>1, <2>2, <2>a, <2>b, <2>c, QueuedRows, Zenon
  <2>. HIDE DEF e0
  <2>. QED BY <2>1, <2>3, <2>4, Zenon DEF Enqueued, Same
<1>. DEFINE a == Acked(d, "export")  b == Acked(d, "cleanup")
<1>1. /\ d.source = r /\ d.slot # ""
      /\ \/ e = d
         \/ d.state = "queued" /\ (e = Sealed(a) \/ e = Aborted(a))
         \/ /\ d.state = "deleting_source" /\ f.kind = "delete"
            /\ e = Released(b, "succeeded") \/ e = Retried(b, "delete")
         \/ d.state = "aborting" /\ (e = Released(b, "failed") \/ e = Retried(b, "abort"))
  BY Zenon DEF Recorded
<1>2. /\ Quiet(d, a) /\ a.state = d.state /\ a.slot = d.slot
      /\ Quiet(d, b) /\ b.state = d.state /\ b.slot = d.slot
      /\ d.state = "deleting_source" => NoDeletion(b)
  BY <1>AckedRows, Zenon
<1>3. a \in Rows /\ RowInv(a) /\ b \in Rows /\ RowInv(b)
  BY <1>2, Zenon DEF Quiet
<1>. HIDE DEF a, b
<1>4. CASE e = d
  BY <1>4, QuietRefl
<1>5. CASE d.state = "queued" /\ (e = Sealed(a) \/ e = Aborted(a))
  <2>1. Quiet(a, e)
    BY <1>1, <1>2, <1>3, <1>5, <1>SealedRows, AbortedRows, Zenon
  <2>. QED BY <2>1, <1>2, QuietTrans
<1>6. CASE d.state = "deleting_source" /\ f.kind = "delete"
           /\ (e = Released(b, "succeeded") \/ e = Retried(b, "delete"))
  <2>1. CASE e = Released(b, "succeeded")
    <3>1. e \in Rows /\ RowInv(e) /\ Same(b, e) /\ e.home = b.home
      BY <1>2, <1>3, <1>6, <2>1, <1>ReleasedRows
    <3>. QED BY <1>1, <1>2, <1>6, <3>1, Zenon DEF Cleaned, Quiet, Same
  <2>2. CASE e = Retried(b, "delete")
    <3>1. Enqueued(b, e, "delete")
      BY <1>2, <1>3, <1>6, <2>2, <1>RetriedRows, Zenon
    <3>. QED BY <1>1, <1>2, <1>6, <3>1, Zenon DEF Enqueued, Cleaned, Quiet, Same
  <2>. QED BY <1>6, <2>1, <2>2
<1>7. CASE d.state = "aborting" /\ (e = Released(b, "failed") \/ e = Retried(b, "abort"))
  <2>0. NoDeletion(b)
    BY <1>2, <1>3, <1>7, Zenon DEF RowInv, NoDeletion
  <2>1. CASE e = Released(b, "failed")
    <3>1. e \in Rows /\ RowInv(e) /\ Same(b, e) /\ e.home = b.home /\ e.state = "failed" /\ e.cmds = b.cmds
      BY <1>2, <1>3, <1>7, <2>0, <2>1, <1>ReleasedRows
    <3>2. Quiet(b, e)
      BY <1>2, <1>7, <3>1 DEF Quiet
    <3>. QED BY <3>2, <1>2, QuietTrans
  <2>2. CASE e = Retried(b, "abort")
    <3>1. Enqueued(b, e, "abort")
      BY <1>2, <1>3, <1>7, <2>2, <1>RetriedRows, Zenon
    <3>2. Quiet(b, e)
      BY <1>2, <1>7, <3>1, Zenon DEF Enqueued, Quiet
    <3>. QED BY <3>2, <1>2, QuietTrans
  <2>. QED BY <1>7, <2>1, <2>2
<1>. QED BY <1>1, <1>4, <1>5, <1>6, <1>7, Zenon

LEMMA ReconciledRows ==
  ASSUME NEW d \in Rows, RowInv(d), NEW r \in Runners, NEW f, NEW e \in Reconciled(d, r, f)
  PROVE  Quiet(d, e)
(* recordLocalWorkspaceReconciliation.                                     *)
<1>ReplayedRows. ASSUME NEW d0 \in Rows, RowInv(d0), NEW r0, NEW kind \in {"abort", "export"}, NEW held,
                        NEW e0 \in Replayed(d0, r0, kind, held)
                 PROVE  Quiet(d0, e0)
  <2>. USE <1>ReplayedRows
  <2>1. e0 = d0 \/ e0 \in Recorded(d0, r0, Result(kind, d0.effect, d0.op, TRUE, TRUE))
    BY Zenon DEF Replayed
  <2>2. Result(kind, d0.effect, d0.op, TRUE, TRUE).kind # "delete"
    BY DEF Result
  <2>. QED BY <2>1, <2>2, QuietRefl, RecordedRows, Zenon
<1>ComparedRows. ASSUME NEW d0 \in Rows, RowInv(d0), NEW r0, NEW held
                 PROVE  Quiet(d0, Compared(d0, r0, held))
  <2>. USE <1>ComparedRows
  <2>. DEFINE o == IF d0.slot # "" /\ d0.operation \in {"pending", "running"} THEN "failed" ELSE d0.operation
              s == IF d0.slot = "" THEN "" ELSE "failed"
              w == d0.failed /\ d0.slot # ""
              x == [d0 EXCEPT !.failed = TRUE, !.slot = s, !.operation = o]
              y == [d0 EXCEPT !.failed = w]
  <2>0. o \in Outcomes /\ s \in Slots /\ w \in BOOLEAN /\ (s = "" => d0.slot = "")
    BY RowFields, Zenon DEF Outcomes, Slots
  <2>1. Compared(d0, r0, held) \in {d0, x, y}
    BY Zenon DEF Compared
  <2>. HIDE DEF o, s, w
  <2>2. /\ x \in Rows /\ Same(d0, x) /\ x.home = d0.home /\ x.state = d0.state /\ x.cmds = d0.cmds
        /\ x.slot = s
    BY <2>0, Zenon DEF Rows, Same
  <2>3. /\ y \in Rows /\ Same(d0, y) /\ y.home = d0.home /\ y.state = d0.state /\ y.cmds = d0.cmds
        /\ y.slot = d0.slot
    BY <2>0, Zenon DEF Rows, Same
  <2>. HIDE DEF x, y
  <2>4. Quiet(d0, x)
    BY <2>0, <2>2, Zenon DEF Quiet, RowInv, Same
  <2>5. Quiet(d0, y)
    BY <2>3, Zenon DEF Quiet, RowInv, Same
  <2>. QED BY <2>1, <2>4, <2>5, QuietRefl
<1>1. PICK a, b : /\ a \in Replayed(d, r, "abort", f.receipts) /\ b \in Replayed(a, r, "export", f.receipts)
                  /\ e = [Compared(b, r, f.image) EXCEPT !.recon[r] = "none"]
  <2>1. e \in {[Compared(b, r, f.image) EXCEPT !.recon[r] = "none"] :
                 b \in UNION {Replayed(a, r, "export", f.receipts) :
                                a \in Replayed(d, r, "abort", f.receipts)}}
    BY Zenon DEF Reconciled
  <2>2. PICK b \in UNION {Replayed(a, r, "export", f.receipts) : a \in Replayed(d, r, "abort", f.receipts)} :
               e = [Compared(b, r, f.image) EXCEPT !.recon[r] = "none"]
    BY <2>1, Zenon
  <2>3. \E a : a \in Replayed(d, r, "abort", f.receipts) /\ b \in Replayed(a, r, "export", f.receipts)
    BY <2>2, Zenon
  <2>. QED BY <2>2, <2>3, Zenon
<1>2. Quiet(d, a)
  BY <1>1, <1>ReplayedRows
<1>3. Quiet(a, b)
  BY <1>1, <1>2, <1>ReplayedRows DEF Quiet
<1>. DEFINE c == Compared(b, r, f.image)
<1>4. Quiet(b, c)
  BY <1>3, <1>ComparedRows DEF Quiet
<1>. HIDE DEF c
<1>5. e = [c EXCEPT !.recon = [c.recon EXCEPT ![r] = "none"]] /\ c \in Rows /\ RowInv(c)
  BY <1>1, <1>4 DEF c, Quiet
<1>6. /\ e \in Rows /\ Same(c, e) /\ e.home = c.home /\ e.state = c.state /\ e.cmds = c.cmds /\ e.slot = c.slot
  BY <1>5, RowFields DEF Rows, Recons, Same
<1>7. RowInv(e)
  BY <1>5, <1>6, Zenon DEF RowInv, Same
<1>8. Quiet(c, e)
  BY <1>6, <1>7 DEF Quiet
<1>. QED BY <1>2, <1>3, <1>4, <1>8, QuietTrans

(* RouteWorkspaceTransfer moves the home for a success of the target.      *)
LEMMA RoutedRows ==
  ASSUME NEW d \in Rows, RowInv(d), NEW r, NEW f, f.type = "transfer", NEW e \in Routed(d, r, f)
  PROVE  Quiet(d, e) \/ (Moved(d, e) /\ r = d.target /\ Success(f, d.op))
<1>CommittedRows. ASSUME NEW d0 \in Rows, RowInv(d0), d0.state = "source_sealed"
                  PROVE  Moved(d0, Committed(d0))
  <2>. USE <1>CommittedRows
  <2>. DEFINE b == [d0 EXCEPT !.home = d0.target, !.state = "deleting_source", !.slot = "deleting_source",
                     !.effect = "cleanup"]
              e0 == Queued(b, "delete", "cleanup", b.source)
  <2>1. /\ b \in Rows /\ b.cmds = d0.cmds /\ Same(d0, b) /\ b.home = d0.target /\ b.state = "deleting_source"
        /\ b.slot # "" /\ b.source = d0.source
    BY RowFields, Zenon DEF Rows, Same, Names, States, Slots
  <2>2. RowInv(b) /\ NoDeletion(b)
    BY <2>1, Zenon DEF RowInv, Same, NoDeletion
  <2>3. Committed(d0) = e0
    BY <2>1 DEF Committed
  <2>. HIDE DEF b
  <2>a. b \in Rows /\ RowInv(b) /\ b.state # "none" /\ b.source \in Runners
    BY <2>1, <2>2, RowFields, Zenon
  <2>b. "delete" \in Kinds /\ "cleanup" \in Names /\ NoDeletion(b) /\ b.state = "deleting_source"
    BY <2>1, <2>2, Zenon DEF Kinds, Names
  <2>4. Enqueued(b, e0, "delete")
    BY <2>a, <2>b, QueuedRows, Zenon
  <2>. HIDE DEF e0
  <2>. QED BY <2>1, <2>3, <2>4, Zenon DEF Enqueued, Moved, Same
<1>1. /\ d.state = "source_sealed"
      /\ e = d \/ e = Aborted(d) \/ (e = Committed(d) /\ r = d.target /\ f.op = d.op /\ f.what = "result" /\ f.ok)
  BY Zenon DEF Routed
<1>. QED BY <1>1, QuietRefl, AbortedRows, <1>CommittedRows DEF Success

LEMMA OneMore ==
  \A m \in Nat : m + 1 \in Nat /\ m + 1 # 0 /\ \A i \in 1..m : i \in 1..(m + 1)
OBVIOUS

(* RelocateSandbox.                                                        *)
LEMMA RequestedRows ==
  ASSUME NEW d \in Rows, RowInv(d), d.slot = "", NEW t \in Runners, t # d.home
  PROVE  LET e == Requested(d, t) IN
         /\ e \in Rows /\ RowInv(e) /\ e.op = d.op + 1 /\ e.home = d.home /\ e.target = t
         /\ e.state = "queued" /\ NoDeletion(e) /\ d.state # "deleting_source"
<1>0. /\ d.op \in Nat /\ d.home \in Runners
      /\ "queued" \in States /\ "export" \in Names /\ "queued" \in Slots /\ "pending" \in Outcomes
  BY RowFields, Zenon DEF Names, States, Slots, Outcomes
<1>1. d.state \in Ended
  BY Zenon DEF RowInv
<1>2. NoDeletion(d) /\ d.state # "deleting_source" /\ \A c \in d.cmds : c.op \in 1..d.op
  BY <1>1, Zenon DEF RowInv, NoDeletion, Ended
<1>3. PICK n \in Nat : n = d.op + 1 /\ n # 0 /\ \A c \in d.cmds : c.op \in 1..n
  BY <1>0, <1>2, OneMore, Zenon
<1>. DEFINE b == [d EXCEPT !.op = n, !.source = d.home, !.target = t, !.state = "queued",
                   !.effect = "export", !.slot = "queued", !.operation = "pending"]
<1>4. /\ b \in Rows /\ b.cmds = d.cmds /\ b.op = n /\ b.home = d.home /\ b.state = "queued"
      /\ b.slot = "queued" /\ b.source = d.home /\ b.target = t
  BY <1>0, <1>3, Zenon DEF Rows
<1>5. Requested(d, t) = Queued(b, "export", "export", d.home)
  BY <1>3, Zenon DEF Requested
<1>. HIDE DEF b
<1>6. RowInv(b)
  BY <1>2, <1>3, <1>4, Zenon DEF RowInv, NoDeletion
<1>7. Enqueued(b, Requested(d, t), "export")
  <2>1. b \in Rows /\ RowInv(b) /\ b.state # "none" /\ d.home \in Runners
    BY <1>0, <1>4, <1>6, Zenon
  <2>2. "export" \in Kinds /\ "export" \in Names /\ "export" # "delete"
    BY Zenon DEF Kinds, Names
  <2>. QED BY <1>5, <2>1, <2>2, QueuedRows, Zenon
<1>. QED BY <1>2, <1>3, <1>4, <1>7, Zenon DEF Enqueued, Same, RowInv, NoDeletion

(* ClaimCommands and OpenConnection set the state of a Runner's commands.  *)
Reset(c, st) == [c EXCEPT !.state = st]

Redone(d, r, p, st) == [d EXCEPT !.recon[r] = p, !.cmds = InState(d.cmds, r, st)]

Claimed(d, e, r, st) ==
  /\ e \in Rows /\ RowInv(e) /\ Same(d, e) /\ e.home = d.home /\ e.state = d.state
  /\ \A c \in e.cmds : c.kind = "delete" => (c.to # r /\ c \in d.cmds) \/ (c.to = r /\ c.state = st)

LEMMA ResetRows ==
  ASSUME NEW d \in Rows, RowInv(d), NEW r \in Runners, NEW st \in Claims,
         NEW p \in Recons
  PROVE  Claimed(d, Redone(d, r, p, st), r, st)
<1>InStateOf. ASSUME NEW C \in SUBSET Cmds, NEW r0, NEW st0 \in Claims
              PROVE  /\ InState(C, r0, st0) \in SUBSET Cmds
                     /\ \A c \in InState(C, r0, st0) : \E x \in C :
                          /\ c.kind = x.kind /\ c.name = x.name /\ c.op = x.op /\ c.to = x.to
                          /\ (x.to # r0 /\ c = x) \/ (x.to = r0 /\ c = Reset(x, st0) /\ c.state = st0)
  <2>. USE <1>InStateOf
  <2>1. \A x \in C : LET c == Reset(x, st0) IN
          /\ c \in Cmds /\ c.kind = x.kind /\ c.name = x.name /\ c.op = x.op /\ c.to = x.to /\ c.state = st0
    BY DEF Cmds, Reset
  <2>2. ASSUME NEW c \in InState(C, r0, st0)
        PROVE  \E x \in C : (x.to # r0 /\ c = x) \/ (x.to = r0 /\ c = Reset(x, st0))
    BY <2>2, Zenon DEF InState, Reset
  <2>3. ASSUME NEW c \in InState(C, r0, st0)
        PROVE  /\ c \in Cmds
               /\ \E x \in C : /\ c.kind = x.kind /\ c.name = x.name /\ c.op = x.op /\ c.to = x.to
                               /\ (x.to # r0 /\ c = x) \/ (x.to = r0 /\ c = Reset(x, st0) /\ c.state = st0)
    <3>1. PICK x \in C : (x.to # r0 /\ c = x) \/ (x.to = r0 /\ c = Reset(x, st0))
      BY <2>3, <2>2, Zenon
    <3>. QED BY <3>1, <2>1
  <2>. QED BY <2>3, Zenon
<1>. DEFINE C == InState(d.cmds, r, st)
            z == [d.recon EXCEPT ![r] = p]
            e == Redone(d, r, p, st)
<1>1. d.cmds \in SUBSET Cmds /\ z \in [Runners -> Recons]
  BY RowFields
<1>a. C \in Queues
  BY RowFields, <1>InStateOf, Zenon DEF Queues
<1>2. /\ C \in SUBSET Cmds
      /\ \A c \in C : \E x \in d.cmds :
           /\ c.kind = x.kind /\ c.name = x.name /\ c.op = x.op /\ c.to = x.to
           /\ (x.to # r /\ c = x) \/ (x.to = r /\ c = Reset(x, st) /\ c.state = st)
  <2>1. \A D \in SUBSET Cmds :
          /\ InState(D, r, st) \in SUBSET Cmds
          /\ \A c \in InState(D, r, st) : \E x \in D :
               /\ c.kind = x.kind /\ c.name = x.name /\ c.op = x.op /\ c.to = x.to
               /\ (x.to # r /\ c = x) \/ (x.to = r /\ c = Reset(x, st) /\ c.state = st)
    BY <1>InStateOf, Zenon
  <2>. QED BY <1>1, <2>1, Zenon
<1>. HIDE DEF C
<1>3. e = [d EXCEPT !.recon = z, !.cmds = C]
  BY DEF Rows, Redone, C
<1>. HIDE DEF z
<1>4. /\ e \in Rows /\ Same(d, e) /\ e.home = d.home /\ e.state = d.state /\ e.cmds = C /\ e.slot = d.slot
  <2>. DEFINE g == [d EXCEPT !.recon = z, !.cmds = C]
  <2>1. /\ g \in Rows /\ Same(d, g) /\ g.home = d.home /\ g.state = d.state /\ g.cmds = C /\ g.slot = d.slot
    BY <1>1, <1>a, Zenon DEF Rows, Same
  <2>. QED BY <1>3, <2>1
<1>. HIDE DEF e
<1>5. \A c \in C : c.op \in 1..d.op
  BY <1>2, Zenon DEF RowInv
<1>6. \A c \in C : c.kind = "delete" =>
        c.name = "cleanup" /\ c.op = d.op /\ c.to = d.source /\ d.state = "deleting_source"
  BY <1>2, Zenon DEF RowInv
<1>7. ASSUME NEW c \in C, NEW g \in C, c.kind = "delete", g.kind = "delete"
      PROVE  c = g
  <2>1. PICK x \in d.cmds : x.kind = "delete" /\ ((x.to # r /\ c = x) \/ (x.to = r /\ c = Reset(x, st)))
    BY <1>2, <1>7
  <2>2. PICK y \in d.cmds : y.kind = "delete" /\ ((y.to # r /\ g = y) \/ (y.to = r /\ g = Reset(y, st)))
    BY <1>2, <1>7
  <2>3. x = y
    BY <2>1, <2>2, Zenon DEF RowInv
  <2>. QED BY <2>1, <2>2, <2>3, Zenon
<1>8. RowInv(e)
  BY <1>4, <1>5, <1>6, <1>7, Zenon DEF RowInv, Same
<1>9. \A c \in e.cmds : c.kind = "delete" => (c.to # r /\ c \in d.cmds) \/ (c.to = r /\ c.state = st)
  BY <1>2, <1>4
<1>. QED BY <1>4, <1>8, <1>9, Zenon DEF e, Claimed

LEMMA OpenedRows ==
  ASSUME NEW d \in Rows, RowInv(d), NEW r \in Runners
  PROVE  LET e == Opened(d, r) IN
         /\ e \in Rows /\ RowInv(e) /\ Same(d, e) /\ e.home = d.home
         /\ e.state = "deleting_source" <=> d.state = "deleting_source"
         /\ \A c \in e.cmds : c.kind = "delete" =>
              (c.to # r /\ c \in d.cmds) \/ (c.to = r /\ c.state = "pending")
<1>RestartedRows. ASSUME NEW d0 \in Rows, RowInv(d0), NEW r0 \in Runners
                  PROVE  Quiet(d0, Restarted(d0, r0))
  <2>. USE <1>RestartedRows
  <2>1. CASE ~Restarts(d0, r0)
    BY <2>1, QuietRefl DEF Restarted
  <2>2. CASE Restarts(d0, r0)
    <3>. DEFINE k == IF d0.slot = "" THEN d0.effect ELSE "export"
                b == [d0 EXCEPT !.effect = k, !.cmds = {c \in d0.cmds : c.op # d0.op}]
                e == Queued(b, "export", "export", r0)
    <3>0. k \in Names /\ d0.state = "source_sealed"
      BY <2>2, RowFields, Zenon DEF Names, Restarts
    <3>1. Restarted(d0, r0) = e
      BY <2>2, Zenon DEF Restarted
    <3>. HIDE DEF k
    <3>2. /\ b \in Rows /\ Same(d0, b) /\ b.home = d0.home /\ b.state = d0.state /\ b.slot = d0.slot
          /\ b.cmds \subseteq d0.cmds
      <4>1. {c \in d0.cmds : c.op # d0.op} \in Queues
        BY RowFields DEF Queues
      <4>. QED BY <3>0, <4>1, Zenon DEF Rows, Same
    <3>. HIDE DEF b
    <3>3. RowInv(b)
      BY <3>2, Zenon DEF RowInv, Same
    <3>a. b \in Rows /\ RowInv(b) /\ b.state # "none"
      BY <3>0, <3>2, <3>3
    <3>b. "export" \in Kinds /\ "export" \in Names /\ "export" # "delete"
      BY DEF Kinds, Names
    <3>4. Enqueued(b, e, "export")
      BY <3>a, <3>b, QueuedRows, Zenon
    <3>. HIDE DEF e
    <3>5. Quiet(d0, e)
      BY <3>2, <3>4 DEF Enqueued, Quiet, Same
    <3>. QED BY <3>1, <3>5
  <2>. QED BY <2>1, <2>2
<1>. DEFINE b == Redone(d, r, "pending", "pending")
            e == Restarted(b, r)
<1>1. Claimed(d, b, r, "pending")
  <2>1. "pending" \in Claims /\ "pending" \in Recons
    BY DEF Claims, Recons
  <2>. QED BY <2>1, ResetRows, Zenon
<1>2. Opened(d, r) = e
  BY Zenon DEF Opened, Redone
<1>. HIDE DEF b
<1>3. Quiet(b, e)
  <2>1. b \in Rows /\ RowInv(b)
    BY <1>1, Zenon DEF Claimed
  <2>. QED BY <2>1, <1>RestartedRows, Zenon
<1>. HIDE DEF e
<1>. QED BY <1>1, <1>2, <1>3 DEF Claimed, Quiet, Same

LEMMA SameOp ==
  ASSUME RelocationInv, db'.op = db.op
  PROVE  (exporting' = exporting => Exports') /\ (routed' = routed => Routes')
<1>0. Exports /\ Routes
  BY Rest
<1>1. ASSUME exporting' = exporting
      PROVE  Exports'
  <2>1. \A s \in Runners : exporting'[s].phase # "off" => exporting'[s].op \in 1..db'.op
    BY <1>0, <1>1 DEF Exports
  <2>. QED BY <2>1, Zenon DEF Exports
<1>2. ASSUME routed' = routed
      PROVE  Routes'
  <2>1. \A h \in Runners \X Sides : routed'[h] # None => routed'[h].op \in 1..db'.op
    BY <1>0, <1>2 DEF Routes
  <2>. QED BY <2>1, Zenon DEF Routes
<1>. QED BY <1>1, <1>2

LEMMA NoneLeft ==
  ASSUME \A s \in Runners : ~Has(up'[s]) /\ ~Has(down'[s])
  PROVE  DelInv'
<1>1. \A s \in Runners : Lone(up'[s]) /\ Lone(down'[s])
  BY Zenon DEF Has, Lone
<1>. QED BY <1>1, Zenon DEF DelInv

-----------------------------------------------------------------------------
(* The handlers.                                                           *)

(* What reaches a Runner need not rest on a receipt.                       *)
AllImports == [s \in Runners |-> {"import"} \X Nat]

(* What a handler of a connection does.                                    *)
LEMMA HandlerKept ==
  \A r \in Runners :
    RelocationInv /\ (Handler(r) \/ Superseded(r) \/ Notice(r)) => RelocationInv'
<1>UpOf. ASSUME NEW f \in UpFrames
         PROVE  /\ f.type \in {"transfer", "result", "report"}
                /\ f.type = "transfer" => f \in Transfers /\ \A m : Within(f, m) => f.op \in 1..m
                /\ Deletion(f) <=> f.type = "result" /\ f.kind = "delete"
  BY <1>UpOf DEF UpFrames, Transfers, Results, Reports, Deletion, Within
<1>Unroutes. ASSUME RelocationInv, NEW h \in Runners \X Sides, routed' = [routed EXCEPT ![h] = None], db' = db
             PROVE  routed' \in [Runners \X Sides -> Transfers \cup {None}] /\ Routes'
  <2>. USE <1>Unroutes
  <2>1. routed \in [Runners \X Sides -> Transfers \cup {None}] /\ Routes
    BY Rest, Zenon DEF Types
  <2>2. /\ routed' \in [Runners \X Sides -> Transfers \cup {None}]
        /\ \A k \in Runners \X Sides : routed'[k] = None \/ routed'[k] = routed[k]
    BY <2>1
  <2>3. \A k \in Runners \X Sides : routed'[k] # None => routed'[k].op \in 1..db'.op
    BY <2>1, <2>2 DEF Routes
  <2>. QED BY <2>2, <2>3, Zenon DEF Routes
(* The handler of the connection returns.                                  *)
<1>Ends. ASSUME RelocationInv, NEW r \in Runners, EndHandler(r), db' = db, NEW held
         PROVE  /\ link' \in [Runners -> Links] /\ up' \in [Runners -> Seq(UpFrames)] /\ Flow(up, up', held)
                /\ routed' \in [Runners \X Sides -> Transfers \cup {None}] /\ Routes'
  <2>. USE <1>Ends
  <2>1. /\ link' = [link EXCEPT ![r] = "closed"] /\ up' = [up EXCEPT ![r] = <<>>]
        /\ routed' = [routed EXCEPT ![<<r, "up">>] = None]
    BY Zenon DEF EndHandler
  <2>2. link \in [Runners -> Links] /\ up \in [Runners -> Seq(UpFrames)]
    BY Rest, Zenon DEF Types
  <2>3. link' \in [Runners -> Links]
    BY <2>1, <2>2 DEF Links
  <2>4. up' \in [Runners -> Seq(UpFrames)] /\ Flow(up, up', held)
    <3>1. <<>> \in Seq(UpFrames)
      OBVIOUS
    <3>. QED BY <2>1, <2>2, <3>1, KeptEmpty, FlowAt, Zenon
  <2>5. <<r, "up">> \in Runners \X Sides
    BY DEF Sides
  <2>6. routed' \in [Runners \X Sides -> Transfers \cup {None}] /\ Routes'
    BY <2>1, <2>5, <1>Unroutes, Zenon
  <2>. QED BY <2>3, <2>4, <2>6
(* The superseded handler returns.                                         *)
<1>EndsLate. ASSUME RelocationInv, NEW r \in Runners, late' = [late EXCEPT ![r] = <<>>], NEW held
             PROVE  late' \in [Runners -> Seq(UpFrames)] /\ Left(held)
  <2>. USE <1>EndsLate
  <2>1. late \in [Runners -> Seq(UpFrames)] /\ <<>> \in Seq(UpFrames)
    BY Rest DEF Types
  <2>2. late' \in [Runners -> Seq(UpFrames)] /\ Flow(late, late', held)
    BY <2>1, KeptEmpty, FlowAt, Zenon
  <2>. QED BY <2>2, Zenon DEF Flow, Left
<1>NoticeKept. ASSUME RelocationInv, NEW r \in Runners, Notice(r)
               PROVE  RelocationInv'
  <2>. USE <1>NoticeKept
  <2>1. UNCHANGED <<db, down, session, busy, doomed, exporting, importing, image, made, receipts, budget>>
    BY Zenon DEF Notice, runner, store
  <2>2. CASE EndHandler(r) /\ late' = late
    <3>1. Types'
      BY <2>1, <2>2, <1>Ends, Rest, Zenon DEF Types
    <3>. QED BY <2>1, <2>2, <3>1, <1>Ends, Rest, CalmRows, Zenon DEF store
  <2>3. CASE /\ late' = [late EXCEPT ![r] = <<>>] /\ routed' = [routed EXCEPT ![<<r, "late">>] = None]
             /\ UNCHANGED <<link, up>>
    <3>1. <<r, "late">> \in Runners \X Sides
      BY DEF Sides
    <3>2. routed' \in [Runners \X Sides -> Transfers \cup {None}] /\ Routes'
      BY <2>1, <2>3, <3>1, <1>Unroutes, Zenon
    <3>3. late' \in [Runners -> Seq(UpFrames)] /\ Left(receipts)
      BY <2>3, <1>EndsLate, Zenon
    <3>4. Types'
      BY <2>1, <2>3, <3>2, <3>3, Rest, Zenon DEF Types
    <3>. QED BY <2>1, <2>3, <3>2, <3>3, <3>4, Rest, CalmRows, Zenon DEF store
  <2>. QED BY <2>2, <2>3, Zenon DEF Notice
<1>ForwardKept. ASSUME RelocationInv, NEW r \in Runners, NEW side \in Sides, Forward(r, side)
                PROVE  RelocationInv'
              (* A frame that the hub took goes to the peer.                             *)
  <2>. USE <1>ForwardKept
  <2>AppendOf. ASSUME NEW S, NEW q \in Seq(S), NEW f \in S
               PROVE  Append(q, f) = q \o <<f>> /\ Append(q, f) \in Seq(S)
    BY <2>AppendOf
  <2>. DEFINE h == <<r, side>>  f == routed[h]  peer == IF r = db.source THEN db.target ELSE db.source
  <2>1. /\ f # None
        /\ UNCHANGED <<db, session, busy, doomed, exporting, importing, image, made, receipts, budget>>
    BY Zenon DEF Forward, runner, store
  <2>2. /\ Types /\ Routes /\ peer \in Runners /\ h \in Runners \X Sides
        /\ down \in [Runners -> Seq(DownFrames)] /\ down[peer] \in Seq(DownFrames)
        /\ routed \in [Runners \X Sides -> Transfers \cup {None}]
    <3>1. db.source \in Runners /\ db.target \in Runners
      BY Rest, RowFields, Zenon
    <3>. QED BY <3>1, Rest, Zenon DEF Types
  <2>3. f \in Transfers /\ f.op \in 1..db.op
    BY <2>1, <2>2, Zenon DEF Routes
  <2>4. f \in DownFrames /\ f \in UpFrames /\ Within(f, db.op) /\ ~Deletion(f)
    BY <2>3, Zenon DEF DownFrames, UpFrames, Within, Deletion, Transfers
  <2>. HIDE DEF peer
  <2>5. CASE /\ down' = IF link[peer] = "up" THEN [down EXCEPT ![peer] = Append(down[peer], f)] ELSE down
             /\ routed' = [routed EXCEPT ![h] = None] /\ UNCHANGED <<link, up, late>>
    <3>1. routed' \in [Runners \X Sides -> Transfers \cup {None}] /\ Routes'
      BY <2>1, <2>2, <2>5, <1>Unroutes, Zenon
    <3>2. down' \in [Runners -> Seq(DownFrames)] /\ Flow(down, down', AllImports)
      <4>1. CASE down' = down
        BY <2>2, <4>1, Rest, Zenon
      <4>2. CASE down' = [down EXCEPT ![peer] = Append(down[peer], f)]
        <5>. DEFINE p == Append(down[peer], f)
        <5>1. p = down[peer] \o <<f>> /\ p \in Seq(DownFrames)
          BY <2>2, <2>4, <2>AppendOf, Zenon
        <5>2. /\ <<f>> \in Seq(DownFrames) /\ Bounded(<<f>>, db.op) /\ ~Has(<<f>>)
          BY <2>4, OneFrame, Zenon
        <5>3. Kept(down[peer], p, db.op, AllImports[peer])
          <6>0. db.op \in Nat /\ <<"import", db.op>> \in AllImports[peer]
            BY <2>2, Rest, RowFields, Zenon DEF AllImports
          <6>1. Backed(<<f>>, db.op, AllImports[peer])
            BY <2>4, <6>0, OneFrame
          <6>. QED BY <2>2, <5>1, <5>2, <6>1, KeptJoin, Zenon
        <5>. HIDE DEF p
        <5>. QED BY <2>2, <4>2, <5>1, <5>3, FlowAt, Zenon DEF p
      <4>. QED BY <2>5, <4>1, <4>2
    <3>3. Types'
      BY <2>1, <2>2, <2>5, <3>1, <3>2, Rest, Zenon DEF Types
    <3>. QED BY <2>1, <2>5, <3>1, <3>2, <3>3, Rest, CalmRows, Zenon DEF store
  <2>6. CASE EndHandler(r) /\ late' = late /\ down' = down
    <3>1. Types'
      BY <2>1, <2>6, <1>Ends, Rest, Zenon DEF Types
    <3>. QED BY <2>1, <2>6, <3>1, <1>Ends, Rest, CalmRows, Zenon DEF store
  <2>7. CASE /\ routed' = [routed EXCEPT ![h] = None] /\ late' = [late EXCEPT ![r] = <<>>]
             /\ UNCHANGED <<link, up, down>>
    <3>1. routed' \in [Runners \X Sides -> Transfers \cup {None}] /\ Routes'
      BY <2>1, <2>2, <2>7, <1>Unroutes, Zenon
    <3>2. late' \in [Runners -> Seq(UpFrames)] /\ Left(receipts)
      BY <2>7, <1>EndsLate, Zenon
    <3>3. Types'
      BY <2>1, <2>2, <2>7, <3>1, <3>2, Rest, Zenon DEF Types
    <3>. QED BY <2>1, <2>7, <3>1, <3>2, <3>3, Rest, CalmRows, Zenon DEF store
  <2>. QED BY <2>5, <2>6, <2>7, Zenon DEF Forward, peer
(* A handler reads a frame.                                                *)
<1>Reads. ASSUME NEW q \in [Runners -> Seq(UpFrames)], NEW r \in Runners, q[r] # <<>>,
                 NEW g, g = [q EXCEPT ![r] = Tail(q[r])], NEW held
          PROVE  /\ g \in [Runners -> Seq(UpFrames)] /\ Flow(q, g, held) /\ Head(q[r]) \in UpFrames
                 /\ g[r] = Tail(q[r]) /\ \A s \in Runners : s # r => g[s] = q[s]
                 /\ Bounded(q[r], db.op) => Within(Head(q[r]), db.op)
                 /\ Backed(q[r], db.op, held[r]) /\ Success(Head(q[r]), db.op) => <<"import", db.op>> \in held[r]
                 /\ Deletion(Head(q[r])) => Has(q[r])
                 /\ Lone(q[r]) /\ Deletion(Head(q[r])) => ~Has(Tail(q[r]))
  <2>. USE <1>Reads
  <2>1. q[r] \in Seq(UpFrames)
    OBVIOUS
  <2>2. Head(q[r]) \in UpFrames /\ Tail(q[r]) \in Seq(UpFrames)
    BY <2>1, TailOf
  <2>3. /\ Bounded(q[r], db.op) => Within(Head(q[r]), db.op)
        /\ Backed(q[r], db.op, held[r]) /\ Success(Head(q[r]), db.op) => <<"import", db.op>> \in held[r]
        /\ Deletion(Head(q[r])) => Has(q[r])
        /\ Lone(q[r]) /\ Deletion(Head(q[r])) => ~Has(Tail(q[r]))
    BY <2>1, TailKeeps, Zenon
  <2>4. Kept(q[r], Tail(q[r]), db.op, held[r])
    BY <2>1, KeptTail
  <2>5. g \in [Runners -> Seq(UpFrames)] /\ Flow(q, g, held)
    BY <2>2, <2>4, FlowAt, Zenon
  <2>6. g[r] = Tail(q[r]) /\ \A s \in Runners : s # r => g[s] = q[s]
    BY <2>2, SetAt
  <2>. QED BY <2>2, <2>3, <2>5, <2>6, Zenon
<1>HandleEventKept. ASSUME RelocationInv, NEW r \in Runners, HandleEvent(r)
                    PROVE  RelocationInv'
  <2>. USE <1>HandleEventKept
  <2>. DEFINE f == Head(up[r])
  <2>1. /\ up[r] # <<>> /\ f.type # "transfer"
        /\ UNCHANGED <<down, late, session, busy, doomed, exporting, importing, image, made, receipts, budget>>
        /\ \/ EndHandler(r) /\ db' = db
           \/ /\ db' \in IF f.type = "report" THEN Reconciled(db, r, f) ELSE Recorded(db, r, f)
              /\ up' = [up EXCEPT ![r] = Tail(up[r])] /\ link' = link /\ routed' = routed
    BY Zenon DEF HandleEvent, runner, store
  <2>2. Types /\ OpsInv /\ DelInv /\ HomeInv /\ up \in [Runners -> Seq(UpFrames)] /\ db \in Rows /\ RowInv(db)
    BY Rest, Zenon DEF Types
  <2>3. CASE EndHandler(r) /\ db' = db
    <3>1. Types'
      BY <2>1, <2>2, <2>3, <1>Ends, Zenon DEF Types
    <3>. QED BY <2>1, <2>3, <3>1, <1>Ends, Rest, CalmRows, Zenon DEF store
  <2>4. CASE /\ db' \in IF f.type = "report" THEN Reconciled(db, r, f) ELSE Recorded(db, r, f)
             /\ up' = [up EXCEPT ![r] = Tail(up[r])] /\ link' = link /\ routed' = routed
    <3>1. /\ up' \in [Runners -> Seq(UpFrames)] /\ Flow(up, up', receipts) /\ f \in UpFrames
          /\ up'[r] = Tail(up[r]) /\ \A s \in Runners : s # r => up'[s] = up[s]
          /\ Deletion(f) => Has(up[r])
          /\ Lone(up[r]) /\ Deletion(f) => ~Has(Tail(up[r]))
      BY <2>1, <2>2, <2>4, <1>Reads, Zenon
    <3>2. Quiet(db, db') \/ (Cleaned(db, db') /\ r = db.source /\ f.type # "report" /\ f.kind = "delete")
      <4>1. CASE f.type = "report"
        BY <2>2, <2>4, <4>1, ReconciledRows
      <4>2. CASE f.type # "report"
        BY <2>2, <2>4, <4>2, RecordedRows
      <4>. QED BY <4>1, <4>2
    <3>3. /\ db' \in Rows /\ RowInv(db') /\ Same(db, db') /\ db'.home = db.home /\ db'.op = db.op
      BY <3>2, Zenon DEF Quiet, Cleaned, Same
    <3>4. Exports' /\ Routes' /\ Imports /\ Flow(down, down', receipts) /\ Left(receipts)
      BY <2>1, <2>4, <3>3, SameOp, Rest
    <3>5. Types'
      BY <2>1, <2>2, <2>4, <3>1, <3>3, Zenon DEF Types
    <3>6. CASE Quiet(db, db')
      BY <2>1, <3>1, <3>4, <3>5, <3>6, Calm, Zenon DEF store
    <3>7. CASE Cleaned(db, db') /\ r = db.source /\ f.type # "report" /\ f.kind = "delete"
      <4>1. Deletion(f)
        BY <2>1, <3>1, <3>7, <1>UpOf
      <4>2. Has(up[r]) /\ ~Has(up'[r])
        BY <2>2, <3>1, <4>1, Zenon DEF DelInv
      <4>3. \A s \in Runners : s # r => ~Has(up'[s]) /\ ~Has(down'[s])
        <5>1. ASSUME NEW s \in Runners, s # r
              PROVE  ~Has(up[s]) /\ ~Has(down[s])
          BY <2>2, <3>7, <5>1, Zenon DEF DelInv, Deleting
        <5>. QED BY <2>1, <3>1, <5>1, Zenon
      <4>4. ~Has(down'[r])
        BY <2>1, <2>2, <4>2, Zenon DEF DelInv
      <4>5. DelInv'
        BY <4>2, <4>3, <4>4, NoneLeft
      <4>6. HomeInv'
        BY <2>1, <2>2, <3>3, HomeKept DEF store
      <4>7. OpsInv'
        BY <2>2, <3>1, <3>3, <3>4, OpsKept
      <4>. QED BY <2>1, <3>1, <3>3, <3>4, <3>5, <4>5, <4>6, <4>7, Steady, Zenon DEF store
    <3>. QED BY <3>2, <3>6, <3>7
  <2>. QED BY <2>1, <2>3, <2>4
(* The hub takes a transfer frame: the home moves only on a success that   *)
(* the target's receipt stands for.                                        *)
<1>RouteKept. ASSUME RelocationInv, NEW r \in Runners, NEW f \in UpFrames, f.type = "transfer", Within(f, db.op),
                     r = db.target /\ Success(f, db.op) => <<"import", db.op>> \in receipts[r],
                     db' \in Routed(db, r, f), NEW h \in Runners \X Sides, routed' = [routed EXCEPT ![h] = f],
                     up' \in [Runners -> Seq(UpFrames)], late' \in [Runners -> Seq(UpFrames)],
                     Flow(up, up', receipts), Left(receipts),
                     UNCHANGED <<link, down, session, busy, doomed, exporting, importing, image, made, receipts, budget>>
              PROVE  RelocationInv'
  <2>. USE <1>RouteKept
  <2>1. Types /\ OpsInv /\ DelInv /\ ImportInv /\ HomeInv /\ Routes /\ db \in Rows /\ RowInv(db)
    BY Rest, Zenon
  <2>2. f \in Transfers /\ f.op \in 1..db.op
    BY <1>UpOf, Zenon
  <2>3. Quiet(db, db') \/ (Moved(db, db') /\ r = db.target /\ Success(f, db.op))
    BY <2>1, RoutedRows, Zenon
  <2>4. db' \in Rows /\ RowInv(db') /\ Same(db, db') /\ db'.op = db.op
    BY <2>3, Zenon DEF Quiet, Moved, Same
  <2>5. routed' \in [Runners \X Sides -> Transfers \cup {None}] /\ Routes'
    <3>1. routed \in [Runners \X Sides -> Transfers \cup {None}]
      BY <2>1 DEF Types
    <3>2. /\ routed' \in [Runners \X Sides -> Transfers \cup {None}]
          /\ \A k \in Runners \X Sides : routed'[k] = f \/ routed'[k] = routed[k]
      BY <2>2, <3>1, Zenon
    <3>3. \A k \in Runners \X Sides : routed'[k] # None => routed'[k].op \in 1..db'.op
      BY <2>1, <2>2, <2>4, <3>2, Zenon DEF Routes
    <3>. QED BY <3>2, <3>3, Zenon DEF Routes
  <2>6. Exports' /\ Imports /\ Flow(down, down', receipts)
    BY <2>4, SameOp, Rest, Zenon
  <2>7. Types'
    BY <2>1, <2>4, <2>5, Zenon DEF Types
  <2>8. CASE Quiet(db, db')
    BY <2>5, <2>6, <2>7, <2>8, Calm, Zenon DEF store
  <2>9. CASE Moved(db, db') /\ r = db.target /\ Success(f, db.op)
    <3>1. db.state # "deleting_source" /\ db'.home = r
      BY <2>9, Zenon DEF Moved
    <3>2. \A s \in Runners : ~Has(up[s]) /\ ~Has(down[s])
      BY <2>1, <3>1, Zenon DEF DelInv, Deleting
    <3>3. DelInv'
      <4>1. \A s \in Runners : ~Has(up'[s]) /\ ~Has(down'[s])
        BY <2>6, <3>2, Zenon DEF Flow, Kept
      <4>. QED BY <4>1, NoneLeft, Zenon
    <3>4. db.op \in Nat /\ <<"import", db.op>> \in receipts[r]
      BY <2>1, <2>9, RowFields, Zenon
    <3>5. made[r] = db.op /\ image[r] # "none"
      BY <2>1, <3>4, Zenon DEF ImportInv
    <3>6. HomeInv'
      <4>1. image'[db'.home] # "none" /\ (made'[db'.home] # 0 => <<"import", made'[db'.home]>> \in receipts'[db'.home])
        BY <3>1, <3>4, <3>5, Zenon
      <4>. QED BY <4>1, Zenon DEF HomeInv
    <3>7. OpsInv'
      BY <2>1, <2>4, <2>5, <2>6, OpsKept, Zenon
    <3>. QED BY <2>4, <2>6, <2>7, <3>3, <3>6, <3>7, Steady, Zenon DEF store
  <2>. QED BY <2>3, <2>8, <2>9, Zenon
<1>HandleTransferKept. ASSUME RelocationInv, NEW r \in Runners, HandleTransfer(r)
                       PROVE  RelocationInv'
  <2>. USE <1>HandleTransferKept
  <2>. DEFINE f == Head(up[r])
  <2>1. /\ up[r] # <<>> /\ f.type = "transfer"
        /\ UNCHANGED <<down, late, session, busy, doomed, exporting, importing, image, made, receipts, budget>>
        /\ \/ EndHandler(r) /\ db' = db
           \/ /\ db' \in Routed(db, r, f) /\ routed' = [routed EXCEPT ![<<r, "up">>] = f]
              /\ up' = [up EXCEPT ![r] = Tail(up[r])] /\ link' = link
    BY DEF HandleTransfer, runner, store
  <2>2. /\ Types /\ OpsInv /\ BackInv /\ up \in [Runners -> Seq(UpFrames)] /\ late \in [Runners -> Seq(UpFrames)]
        /\ Left(receipts)
    BY <2>1, Rest, Zenon DEF Types
  <2>3. CASE EndHandler(r) /\ db' = db
    <3>1. Types'
      BY <2>1, <2>2, <2>3, <1>Ends, Zenon DEF Types
    <3>. QED BY <2>1, <2>3, <3>1, <1>Ends, Rest, CalmRows, Zenon DEF store
  <2>4. CASE /\ db' \in Routed(db, r, f) /\ routed' = [routed EXCEPT ![<<r, "up">>] = f]
             /\ up' = [up EXCEPT ![r] = Tail(up[r])] /\ link' = link
    <3>1. /\ up' \in [Runners -> Seq(UpFrames)] /\ Flow(up, up', receipts) /\ f \in UpFrames
          /\ Bounded(up[r], db.op) => Within(f, db.op)
          /\ Backed(up[r], db.op, receipts[r]) /\ Success(f, db.op) => <<"import", db.op>> \in receipts[r]
      BY <2>1, <2>2, <2>4, <1>Reads, Zenon
    <3>2. Within(f, db.op)
      BY <2>2, <3>1, Zenon DEF OpsInv
    <3>3. r = db.target /\ Success(f, db.op) => <<"import", db.op>> \in receipts[r]
      BY <2>2, <3>1, Zenon DEF BackInv
    <3>4. <<r, "up">> \in Runners \X Sides
      BY DEF Sides
    <3>5. late' \in [Runners -> Seq(UpFrames)]
      BY <2>1, <2>2
    <3>. HIDE DEF f
    <3>. QED BY <2>1, <2>2, <2>4, <3>1, <3>2, <3>3, <3>4, <3>5, <1>RouteKept, Zenon
  <2>. QED BY <2>1, <2>3, <2>4
<1>HandleLateKept. ASSUME RelocationInv, NEW r \in Runners, HandleLate(r)
                   PROVE  RelocationInv'
  <2>. USE <1>HandleLateKept
  <2>. DEFINE f == Head(late[r])
  <2>1. /\ late[r] # <<>>
        /\ UNCHANGED <<link, up, down, session, busy, doomed, exporting, importing, image, made, receipts, budget>>
        /\ \/ late' = [late EXCEPT ![r] = <<>>] /\ UNCHANGED <<db, routed>>
           \/ /\ f.type = "transfer" /\ db' \in Routed(db, r, f) /\ routed' = [routed EXCEPT ![<<r, "late">>] = f]
              /\ late' = [late EXCEPT ![r] = Tail(late[r])]
    BY DEF HandleLate, runner, store
  <2>2. /\ Types /\ OpsInv /\ BackInv /\ up \in [Runners -> Seq(UpFrames)] /\ late \in [Runners -> Seq(UpFrames)]
        /\ Flow(up, up', receipts)
    BY <2>1, Rest, Zenon DEF Types
  <2>3. CASE late' = [late EXCEPT ![r] = <<>>] /\ UNCHANGED <<db, routed>>
    <3>1. late' \in [Runners -> Seq(UpFrames)] /\ Left(receipts)
      BY <2>3, <1>EndsLate, Zenon
    <3>2. Types'
      BY <2>1, <2>2, <2>3, <3>1, Zenon DEF Types
    <3>. QED BY <2>1, <2>3, <3>1, <3>2, Rest, CalmRows, Zenon DEF store
  <2>4. CASE /\ f.type = "transfer" /\ db' \in Routed(db, r, f) /\ routed' = [routed EXCEPT ![<<r, "late">>] = f]
             /\ late' = [late EXCEPT ![r] = Tail(late[r])]
    <3>1. /\ late' \in [Runners -> Seq(UpFrames)] /\ Flow(late, late', receipts) /\ f \in UpFrames
          /\ Bounded(late[r], db.op) => Within(f, db.op)
          /\ Backed(late[r], db.op, receipts[r]) /\ Success(f, db.op) => <<"import", db.op>> \in receipts[r]
      BY <2>1, <2>2, <2>4, <1>Reads, Zenon
    <3>2. Within(f, db.op)
      BY <2>2, <3>1, Zenon DEF OpsInv
    <3>3. r = db.target /\ Success(f, db.op) => <<"import", db.op>> \in receipts[r]
      BY <2>2, <3>1, Zenon DEF BackInv
    <3>4. <<r, "late">> \in Runners \X Sides
      BY DEF Sides
    <3>5. up' \in [Runners -> Seq(UpFrames)] /\ Left(receipts)
      BY <2>1, <2>2, <3>1, Zenon DEF Flow, Left
    <3>. HIDE DEF f
    <3>. QED BY <2>1, <2>2, <2>4, <3>1, <3>2, <3>3, <3>4, <3>5, <1>RouteKept, Zenon
  <2>. QED BY <2>1, <2>3, <2>4
<1>1. "up" \in Sides /\ "late" \in Sides
  BY DEF Sides
<1>. QED BY <1>1, <1>HandleEventKept, <1>HandleTransferKept, <1>HandleLateKept, <1>ForwardKept, <1>NoticeKept, Zenon
         DEF Handler, Superseded

-----------------------------------------------------------------------------
(* The control plane.                                                      *)

LEMMA RelocateKept ==
  ASSUME RelocationInv, NEW t \in Runners, Relocate(t)
  PROVE  RelocationInv'
<1>BoundedMore. ASSUME NEW q, NEW m \in Nat, Bounded(q, m), NEW held
                PROVE  Bounded(q, m + 1) /\ Backed(q, m + 1, held)
  <2>. USE <1>BoundedMore
  <2>1. \A i \in 1..m : i \in 1..(m + 1) /\ i # m + 1
    OBVIOUS
  <2>2. \A f : Within(f, m) => Within(f, m + 1) /\ ~Success(f, m + 1)
    BY <2>1, Zenon DEF Within, Success
  <2>. QED BY <2>2, Zenon DEF Bounded, Backed
<1>1. /\ Spend("relocate") /\ t # db.home /\ db.slot = "" /\ db' = Requested(db, t)
      /\ UNCHANGED <<link, up, down, late, routed, session, busy, doomed, exporting, importing, image, made, receipts>>
  BY Zenon DEF Relocate, wire, runner, store
<1>2. Types /\ OpsInv /\ DelInv /\ ImportInv /\ HomeInv /\ Exports /\ Routes /\ db \in Rows /\ RowInv(db) /\ db.op \in Nat
  BY Rest, RowFields, Zenon
<1>3. /\ db' \in Rows /\ RowInv(db') /\ db'.op = db.op + 1 /\ db'.home = db.home /\ db'.target = t
      /\ db.state # "deleting_source"
  BY <1>1, <1>2, RequestedRows, Zenon
<1>4. budget' \in [Bounds -> Nat]
  BY <1>1, <1>2, Spends, Zenon DEF Bounds
<1>5. Types'
  BY <1>1, <1>2, <1>3, <1>4, Zenon DEF Types
<1>6. \A s \in Runners : Bounded(up[s], db.op) /\ Bounded(late[s], db.op) /\ Bounded(down[s], db.op)
  BY <1>2, Zenon DEF OpsInv
<1>7. /\ \A s \in Runners : /\ Bounded(up'[s], db'.op) /\ Bounded(late'[s], db'.op) /\ Bounded(down'[s], db'.op)
                            /\ Backed(up'[s], db'.op, receipts'[s]) /\ Backed(late'[s], db'.op, receipts'[s])
  <2>1. \A s \in Runners : /\ Bounded(up[s], db.op + 1) /\ Bounded(late[s], db.op + 1) /\ Bounded(down[s], db.op + 1)
                           /\ Backed(up[s], db.op + 1, receipts[s]) /\ Backed(late[s], db.op + 1, receipts[s])
    BY <1>2, <1>6, <1>BoundedMore, Zenon
  <2>. QED BY <1>1, <1>3, <2>1, Zenon
<1>8. \A i \in 1..db.op : i \in 1..db'.op
  BY <1>2, <1>3
<1>9. /\ \A s \in Runners : exporting'[s].phase # "off" => exporting'[s].op \in 1..db'.op
      /\ \A h \in Runners \X Sides : routed'[h] # None => routed'[h].op \in 1..db'.op
  BY <1>1, <1>2, <1>8, Zenon DEF Exports, Routes
<1>10. OpsInv'
  BY <1>7, <1>9, Zenon DEF OpsInv
<1>11. DelInv'
  <2>1. \A s \in Runners : ~Has(up[s]) /\ ~Has(down[s])
    BY <1>2, <1>3, Zenon DEF DelInv, Deleting
  <2>. QED BY <1>1, <2>1, NoneLeft, Zenon
<1>12. ImportInv' /\ HomeInv'
  BY <1>1, <1>2, <1>3, Rest, ImportKept, HomeKept, Zenon DEF store
<1>13. BackInv'
  BY <1>3, <1>5, <1>7, Zenon DEF BackInv
<1>. QED BY <1>3, <1>5, <1>10, <1>11, <1>12, <1>13, Zenon DEF RelocationInv

(* The commands the pump sends in one go.                                  *)
Batch(n, q) == [i \in 1..n |-> Command(q[i].kind, q[i].name, q[i].op, q[i].corr)]
Mine(r) == {c \in db.cmds : c.to = r /\ c.state = "pending"}

LEMMA DeliverKept ==
  ASSUME RelocationInv, NEW r \in Runners, Deliver(r)
  PROVE  RelocationInv'
<1>BatchOf. ASSUME RelocationInv, NEW r0 \in Runners, NEW n \in Nat, NEW q \in [1..n -> Mine(r0)], Ordered(q), NEW held
            PROVE  LET b == Batch(n, q) IN
                   /\ b \in Seq(DownFrames) /\ Bounded(b, db.op) /\ Backed(b, db.op, held) /\ Lone(b)
                   /\ Has(b) => Pending(db) /\ r0 = db.source /\ db.state = "deleting_source"
  <2>. USE <1>BatchOf
  <2>. DEFINE b == Batch(n, q)
  <2>1. db \in Rows /\ RowInv(db) /\ db.cmds \in SUBSET Cmds
    BY Rest, RowFields, Zenon
  <2>2. ASSUME NEW i \in 1..n
        PROVE  /\ q[i] \in db.cmds /\ q[i] \in Cmds /\ q[i].to = r0 /\ q[i].state = "pending"
               /\ q[i].op \in Nat /\ q[i].op \in 1..db.op
    <3>1. q[i] \in db.cmds /\ q[i] \in Cmds /\ q[i].to = r0 /\ q[i].state = "pending"
      BY <2>1 DEF Mine
    <3>. QED BY <2>1, <3>1, Zenon DEF Cmds, RowInv
  <2>3. b \in [1..n -> DownFrames] /\ DOMAIN q = 1..n /\ DOMAIN b = 1..n
    BY <2>2, Zenon DEF Batch, Command, DownFrames, Orders, Cmds
  <2>4. b \in Seq(DownFrames) /\ Len(b) = n
    BY <2>3
  <2>5. ASSUME NEW i \in 1..n
        PROVE  b[i].type = "command" /\ b[i].kind = q[i].kind /\ b[i].op = q[i].op
    BY <2>3 DEF Batch, Command
  <2>. HIDE DEF b
  <2>6. Bounded(b, db.op) /\ Backed(b, db.op, held)
    <3>1. \A i \in 1..n : Within(b[i], db.op) /\ ~Success(b[i], db.op)
      BY <2>2, <2>5 DEF Within, Success
    <3>. QED BY <2>4, <3>1, Zenon DEF Bounded, Backed
  <2>7. ASSUME NEW i \in 1..n, Deletion(b[i])
        PROVE  q[i].kind = "delete" /\ r0 = db.source /\ db.state = "deleting_source" /\ Pending(db)
    BY <2>1, <2>2, <2>5, <2>7, Zenon DEF Deletion, RowInv, Pending
  <2>8. Has(b) => Pending(db) /\ r0 = db.source /\ db.state = "deleting_source"
    BY <2>4, <2>7, Zenon DEF Has
  <2>9. Lone(b)
    <3>1. ASSUME NEW i \in 1..n, NEW j \in 1..n, Deletion(b[i]), Deletion(b[j]), i < j
          PROVE  FALSE
      <4>1. q[i] = q[j]
        BY <2>1, <2>2, <2>7, <3>1, Zenon DEF RowInv
      <4>2. Before(q[i], q[j])
        BY <2>3, <3>1 DEF Ordered
      <4>3. q[i].op \in Nat
        BY <2>2
      <4>. QED BY <4>1, <4>2, <4>3 DEF Before
    <3>2. \A i, j \in 1..n : Deletion(b[i]) /\ Deletion(b[j]) => i = j
      <4>. SUFFICES ASSUME NEW i \in 1..n, NEW j \in 1..n, Deletion(b[i]), Deletion(b[j]), i # j
                    PROVE  FALSE
        BY Zenon
      <4>1. i < j \/ j < i
        OBVIOUS
      <4>. QED BY <3>1, <4>1, Zenon
    <3>. QED BY <2>4, <3>2, Zenon DEF Lone
  <2>. QED BY <2>4, <2>6, <2>8, <2>9 DEF b
(* The pump appends a reconcile command and what is pending.               *)
<1>Delivered. ASSUME NEW a \in Seq(DownFrames), NEW report \in Seq(DownFrames), NEW b \in Seq(DownFrames), NEW n, NEW held,
                     Bounded(a, n), Lone(a), Bounded(report, n), Backed(report, n, held), ~Has(report),
                     Bounded(b, n), Backed(b, n, held), Lone(b)
              PROVE  LET p == (a \o report) \o b IN
                     /\ p \in Seq(DownFrames) /\ Bounded(p, n)
                     /\ ~Has(b) => Kept(a, p, n, held)
                     /\ ~Has(a) => Lone(p)
  <2>. USE <1>Delivered
  <2>. DEFINE m == a \o report  p == m \o b
  <2>1. m \in Seq(DownFrames) /\ Kept(a, m, n, held)
    BY JoinOf, KeptJoin, Zenon
  <2>2. Bounded(m, n) /\ (Has(m) => Has(a)) /\ Lone(m)
    BY <2>1, Zenon DEF Kept
  <2>. HIDE DEF m
  <2>3. p \in Seq(DownFrames) /\ Bounded(p, n) /\ (~Has(m) => Lone(p))
    <3>1. p \in Seq(DownFrames)
      BY <2>1, JoinOf, Zenon
    <3>2. Bounded(p, n) /\ (~Has(m) => Lone(p))
      BY <2>1, <2>2, JoinKeeps, Zenon
    <3>. QED BY <3>1, <3>2
  <2>4. ASSUME ~Has(b)
        PROVE  Kept(a, p, n, held)
    <3>1. Kept(m, p, n, held)
      BY <2>1, <2>4, KeptJoin
    <3>. HIDE DEF p
    <3>. QED BY <2>1, <3>1, Zenon DEF Kept
  <2>. QED BY <2>2, <2>3, <2>4, Zenon DEF m
<1>. DEFINE report == IF db.recon[r] = "pending" THEN <<Command("reconcile", "", 0, r)>> ELSE <<>>
            to == IF db.recon[r] = "pending" THEN "sent" ELSE db.recon[r]
            held == receipts[r]
<1>0. PICK n \in 0..(2 * db.op) : \E q \in [1..n -> Mine(r)] :
        Ordered(q) /\ down' = [down EXCEPT ![r] = (down[r] \o report) \o Batch(n, q)]
  BY Zenon DEF Deliver, Mine, Batch
<1>1. PICK q \in [1..n -> Mine(r)] :
        Ordered(q) /\ down' = [down EXCEPT ![r] = (down[r] \o report) \o Batch(n, q)]
  BY <1>0, Zenon
<1>2. /\ db' = Redone(db, r, to, "sent")
      /\ UNCHANGED <<link, up, late, routed, session, busy, doomed, exporting, importing, image, made, receipts, budget>>
  BY Zenon DEF Deliver, Redone, runner, store
<1>3. /\ Types /\ OpsInv /\ DelInv /\ HomeInv /\ db \in Rows /\ RowInv(db)
      /\ down \in [Runners -> Seq(DownFrames)] /\ down[r] \in Seq(DownFrames)
      /\ Bounded(down[r], db.op) /\ Lone(down[r])
  <2>1. Types /\ OpsInv /\ DelInv /\ HomeInv /\ db \in Rows /\ RowInv(db)
    BY Rest
  <2>. QED BY <2>1 DEF Types, OpsInv, DelInv
<1>4. /\ db' \in Rows /\ RowInv(db') /\ Same(db, db') /\ db'.home = db.home /\ db'.state = db.state
      /\ db'.op = db.op /\ db'.source = db.source
      /\ \A c \in db'.cmds : c.kind = "delete" => (c.to # r /\ c \in db.cmds) \/ (c.to = r /\ c.state = "sent")
  <2>1. to \in Recons /\ "sent" \in Claims
    BY <1>3, RowFields, Zenon DEF Recons, Claims
  <2>. HIDE DEF to
  <2>2. Claimed(db, Redone(db, r, to, "sent"), r, "sent")
    BY <1>3, <2>1, ResetRows, Zenon
  <2>. QED BY <1>2, <2>2, Zenon DEF Claimed, Same
<1>5. n \in Nat
  <2>1. db.op \in Nat
    BY <1>3, RowFields, Zenon
  <2>. QED BY <2>1
<1>6. /\ report \in Seq(DownFrames) /\ Bounded(report, db.op) /\ Backed(report, db.op, held) /\ ~Has(report)
  <2>. DEFINE f == Command("reconcile", "", 0, r)
  <2>1. f \in DownFrames /\ Within(f, db.op) /\ ~Success(f, db.op) /\ ~Deletion(f)
    BY Zenon DEF Command, DownFrames, Orders, Kinds, Names, Within, Success, Deletion
  <2>. HIDE DEF f
  <2>2. <<f>> \in Seq(DownFrames) /\ Bounded(<<f>>, db.op) /\ Backed(<<f>>, db.op, held) /\ ~Has(<<f>>)
    BY <2>1, OneFrame, Zenon
  <2>3. <<>> \in Seq(DownFrames) /\ Bounded(<<>>, db.op) /\ Backed(<<>>, db.op, held) /\ ~Has(<<>>)
    BY EmptyKeeps
  <2>. QED BY <2>2, <2>3, Zenon DEF f
<1>. DEFINE b == Batch(n, q)  p == (down[r] \o report) \o b
<1>7. /\ b \in Seq(DownFrames) /\ Bounded(b, db.op) /\ Backed(b, db.op, held) /\ Lone(b)
      /\ Has(b) => Pending(db) /\ r = db.source /\ db.state = "deleting_source"
  BY <1>1, <1>5, <1>BatchOf, Zenon
<1>. HIDE DEF b, report, held
<1>8. p \in Seq(DownFrames) /\ Bounded(p, db.op) /\ (~Has(b) => Kept(down[r], p, db.op, held)) /\ (~Has(down[r]) => Lone(p))
  BY <1>3, <1>6, <1>7, <1>Delivered
<1>. HIDE DEF p
<1>9. /\ down' \in [Runners -> Seq(DownFrames)] /\ down'[r] = p /\ \A s \in Runners : s # r => down'[s] = down[s]
  <2>1. down' = [down EXCEPT ![r] = p]
    BY <1>1 DEF b, p
  <2>. QED BY <1>3, <1>8, <2>1, SetAt
<1>10. Types'
  BY <1>2, <1>3, <1>4, <1>9, Zenon DEF Types
<1>11. Exports' /\ Routes' /\ Imports /\ Flow(up, up', receipts) /\ Left(receipts)
  BY <1>2, <1>4, SameOp, Rest, Zenon
<1>12. OpsInv'
  <2>1. \A s \in Runners : Bounded(up'[s], db'.op) /\ Bounded(late'[s], db'.op) /\ Bounded(down'[s], db'.op)
    BY <1>2, <1>3, <1>4, <1>8, <1>9, Zenon DEF OpsInv
  <2>2. /\ \A s \in Runners : exporting'[s].phase # "off" => exporting'[s].op \in 1..db'.op
        /\ \A h \in Runners \X Sides : routed'[h] # None => routed'[h].op \in 1..db'.op
    BY <1>11, Zenon DEF Exports, Routes
  <2>. QED BY <2>1, <2>2, Zenon DEF OpsInv
<1>13. DelInv'
  <2>1. CASE ~Has(b)
    <3>1. Flow(down, down', receipts)
      BY <1>8, <1>9, <2>1, KeptSame DEF Flow, held
    <3>2. Pending(db') => Pending(db)
      BY <1>4 DEF Pending
    <3>. QED BY <1>3, <1>4, <1>11, <3>1, <3>2, DelFlow, Zenon
  <2>2. CASE Has(b)
    <3>1. Pending(db) /\ r = db.source /\ db.state = "deleting_source"
      BY <1>7, <2>2
    <3>2. \A s \in Runners : ~Has(down[s]) /\ ~Has(up[s])
      BY <1>3, <3>1, Zenon DEF DelInv, Deleting
    <3>3. ~Pending(db')
      BY <1>4, <3>1, Zenon DEF Pending, RowInv
    <3>4. Deleting(r)'
      BY <1>4, <3>1, <3>3 DEF Deleting
    <3>5. \A s \in Runners : Lone(up'[s]) /\ Lone(down'[s]) /\ ~Has(up'[s]) /\ (Has(down'[s]) => s = r)
      BY <1>2, <1>3, <1>8, <1>9, <3>2, Zenon DEF DelInv
    <3>. QED BY <3>4, <3>5, Zenon DEF DelInv
  <2>. QED BY <2>1, <2>2
<1>14. HomeInv'
  BY <1>2, <1>3, <1>4, HomeKept, Zenon DEF store
<1>. QED BY <1>2, <1>4, <1>10, <1>11, <1>12, <1>13, <1>14, Steady, Zenon DEF store

(* A restart renames commands and results, nothing else of a queue.        *)
Renamed(f, g) ==
  \/ g = f
  \/ f.type \in {"result", "command"} /\ g = [f EXCEPT !.name = "stale"]

LEMMA ConnectKept ==
  ASSUME RelocationInv, NEW r \in Runners, Connect(r)
  PROVE  RelocationInv'
<1>StaleUp. ASSUME NEW q \in Seq(UpFrames)
            PROVE  Stale(q) \in Seq(UpFrames) /\ Len(Stale(q)) = Len(q)
                   /\ \A i \in 1..Len(q) : q[i] \in UpFrames /\ Renamed(q[i], Stale(q)[i])
  <2>. USE <1>StaleUp
  <2>1. Len(q) \in Nat /\ DOMAIN q = 1..Len(q) /\ \A i \in 1..Len(q) : q[i] \in UpFrames
    OBVIOUS
  <2>2. \A f \in UpFrames : f.type \in {"result", "command"} => [f EXCEPT !.name = "stale"] \in UpFrames
    BY Zenon DEF UpFrames, Transfers, Results, Reports, Names
  <2>3. \A i \in 1..Len(q) : Renamed(q[i], Stale(q)[i]) /\ Stale(q)[i] \in UpFrames
    BY <2>1, <2>2 DEF Stale, Renamed
  <2>4. Stale(q) \in [1..Len(q) -> UpFrames]
    BY <2>1, <2>3 DEF Stale
  <2>. QED BY <2>1, <2>3, <2>4
<1>StaleDown. ASSUME NEW q \in Seq(DownFrames)
              PROVE  Stale(q) \in Seq(DownFrames) /\ Len(Stale(q)) = Len(q)
                     /\ \A i \in 1..Len(q) : q[i] \in DownFrames /\ Renamed(q[i], Stale(q)[i])
  <2>. USE <1>StaleDown
  <2>1. Len(q) \in Nat /\ DOMAIN q = 1..Len(q) /\ \A i \in 1..Len(q) : q[i] \in DownFrames
    OBVIOUS
  <2>2. \A f \in DownFrames : f.type \in {"result", "command"} => [f EXCEPT !.name = "stale"] \in DownFrames
    BY Zenon DEF DownFrames, Transfers, Orders, Names
  <2>3. \A i \in 1..Len(q) : Renamed(q[i], Stale(q)[i]) /\ Stale(q)[i] \in DownFrames
    BY <2>1, <2>2 DEF Stale, Renamed
  <2>4. Stale(q) \in [1..Len(q) -> DownFrames]
    BY <2>1, <2>3 DEF Stale
  <2>. QED BY <2>1, <2>3, <2>4
<1>StaleKeeps. ASSUME NEW q, NEW n, NEW held, Len(Stale(q)) = Len(q),
                      \A i \in 1..Len(q) : q[i] \in UpFrames \cup DownFrames /\ Renamed(q[i], Stale(q)[i])
               PROVE  /\ Bounded(q, n) => Bounded(Stale(q), n)
                      /\ Backed(q, n, held) => Backed(Stale(q), n, held)
                      /\ Lone(q) => Lone(Stale(q))
                      /\ Has(Stale(q)) => Has(q)
  <2>. USE <1>StaleKeeps
  <2>1. ASSUME NEW f \in UpFrames \cup DownFrames, NEW g, Renamed(f, g)
        PROVE  (Within(f, n) => Within(g, n)) /\ (Success(g, n) => Success(f, n)) /\ (Deletion(g) => Deletion(f))
    BY <2>1 DEF Renamed, Within, Success, Deletion, UpFrames, DownFrames, Transfers, Results, Reports, Orders
  <2>2. \A i \in 1..Len(q) : /\ Within(q[i], n) => Within(Stale(q)[i], n)
                             /\ Success(Stale(q)[i], n) => Success(q[i], n)
                             /\ Deletion(Stale(q)[i]) => Deletion(q[i])
    BY <2>1, Zenon
  <2>3. Bounded(q, n) => Bounded(Stale(q), n)
    BY <2>2 DEF Bounded
  <2>4. Backed(q, n, held) => Backed(Stale(q), n, held)
    BY <2>2 DEF Backed
  <2>5. (Lone(q) => Lone(Stale(q))) /\ (Has(Stale(q)) => Has(q))
    BY <2>2 DEF Lone, Has
  <2>. QED BY <2>3, <2>4, <2>5, Zenon
(* What a restart makes stale.                                             *)
<1>OldUp. ASSUME NEW q \in Seq(UpFrames), NEW restarts \in BOOLEAN, NEW n, NEW held
          PROVE  LET p == IF restarts THEN Stale(q) ELSE q IN p \in Seq(UpFrames) /\ Kept(q, p, n, held)
  <2>. USE <1>OldUp
  <2>1. /\ Stale(q) \in Seq(UpFrames) /\ Len(Stale(q)) = Len(q)
        /\ \A i \in 1..Len(q) : q[i] \in UpFrames \cup DownFrames /\ Renamed(q[i], Stale(q)[i])
    BY <1>StaleUp
  <2>2. Kept(q, Stale(q), n, held)
    BY <2>1, <1>StaleKeeps, Zenon DEF Kept
  <2>. QED BY <2>1, <2>2, KeptSame, Zenon
<1>OldDown. ASSUME NEW q \in Seq(DownFrames), NEW restarts \in BOOLEAN, NEW n, NEW held
            PROVE  LET p == IF restarts THEN Stale(q) ELSE q IN p \in Seq(DownFrames) /\ Kept(q, p, n, held)
  <2>. USE <1>OldDown
  <2>1. /\ Stale(q) \in Seq(DownFrames) /\ Len(Stale(q)) = Len(q)
        /\ \A i \in 1..Len(q) : q[i] \in UpFrames \cup DownFrames /\ Renamed(q[i], Stale(q)[i])
    BY <1>StaleDown
  <2>2. Kept(q, Stale(q), n, held)
    BY <2>1, <1>StaleKeeps, Zenon DEF Kept
  <2>. QED BY <2>1, <2>2, KeptSame, Zenon
(* The queues a new connection finds.                                      *)
<1>ConnectQueues. ASSUME RelocationInv, NEW r0 \in Runners, Connect(r0)
                  PROVE  /\ up' \in [Runners -> Seq(UpFrames)] /\ Flow(up, up', receipts) /\ ~Has(up'[r0])
                         /\ down' \in [Runners -> Seq(DownFrames)] /\ Flow(down, down', receipts) /\ ~Has(down'[r0])
                         /\ late' \in [Runners -> Seq(UpFrames)] /\ Left(receipts)
  <2>. USE <1>ConnectQueues
  <2>. DEFINE R == Restarts(db, r0)
              Old(q) == IF R THEN Stale(q) ELSE q
  <2>0. /\ up \in [Runners -> Seq(UpFrames)] /\ late \in [Runners -> Seq(UpFrames)]
        /\ down \in [Runners -> Seq(DownFrames)] /\ R \in BOOLEAN
    BY Rest, Zenon DEF Types, Restarts
  <2>1. /\ \/ late' = [s \in Runners |-> Old(late[s])]
           \/ late' = [s \in Runners |-> Old(IF s = r0 THEN up[r0] ELSE late[s])]
        /\ up' = [s \in Runners |-> IF s = r0 THEN <<>> ELSE Old(up[s])]
        /\ down' = [s \in Runners |-> IF s = r0 THEN <<>> ELSE Old(down[s])]
    BY DEF Connect
  <2>. HIDE DEF R
  <2>2. ASSUME NEW s \in Runners
        PROVE  /\ Old(up[s]) \in Seq(UpFrames) /\ Kept(up[s], Old(up[s]), db.op, receipts[s])
               /\ Old(late[s]) \in Seq(UpFrames) /\ Kept(late[s], Old(late[s]), db.op, receipts[s])
               /\ Old(down[s]) \in Seq(DownFrames) /\ Kept(down[s], Old(down[s]), db.op, receipts[s])
    <3>1. up[s] \in Seq(UpFrames) /\ late[s] \in Seq(UpFrames) /\ down[s] \in Seq(DownFrames)
      BY <2>0
    <3>2. Old(up[s]) \in Seq(UpFrames) /\ Kept(up[s], Old(up[s]), db.op, receipts[s])
      BY <2>0, <3>1, <1>OldUp, Zenon
    <3>3. Old(late[s]) \in Seq(UpFrames) /\ Kept(late[s], Old(late[s]), db.op, receipts[s])
      BY <2>0, <3>1, <1>OldUp, Zenon
    <3>4. Old(down[s]) \in Seq(DownFrames) /\ Kept(down[s], Old(down[s]), db.op, receipts[s])
      BY <2>0, <3>1, <1>OldDown, Zenon
    <3>. QED BY <3>2, <3>3, <3>4, Zenon
  <2>. HIDE DEF Old
  <2>3. <<>> \in Seq(UpFrames) /\ <<>> \in Seq(DownFrames) /\ ~Has(<<>>)
    BY EmptyKeeps
  <2>4. up' \in [Runners -> Seq(UpFrames)] /\ up'[r0] = <<>> /\ \A s \in Runners : up'[s] = <<>> \/ up'[s] = Old(up[s])
    BY <2>1, <2>2, <2>3, Zenon
  <2>5. down' \in [Runners -> Seq(DownFrames)] /\ down'[r0] = <<>> /\ \A s \in Runners : down'[s] = <<>> \/ down'[s] = Old(down[s])
    BY <2>1, <2>2, <2>3, Zenon
  <2>6. late' \in [Runners -> Seq(UpFrames)] /\ \A s \in Runners : late'[s] = Old(late[s]) \/ late'[s] = Old(up[s])
    <3>1. CASE late' = [s \in Runners |-> Old(late[s])]
      BY <2>2, <3>1, Zenon
    <3>2. CASE late' = [s \in Runners |-> Old(IF s = r0 THEN up[r0] ELSE late[s])]
      <4>1. ASSUME NEW s \in Runners
            PROVE  /\ late'[s] = Old(late[s]) \/ late'[s] = Old(up[s])
                   /\ Old(IF s = r0 THEN up[r0] ELSE late[s]) \in Seq(UpFrames)
        BY <2>2, <3>2, <4>1, Zenon
      <4>. QED BY <3>2, <4>1
    <3>. QED BY <2>1, <3>1, <3>2, Zenon
  <2>7. Flow(up, up', receipts) /\ Flow(down, down', receipts)
    <3>1. ASSUME NEW s \in Runners
          PROVE  Kept(up[s], up'[s], db.op, receipts[s]) /\ Kept(down[s], down'[s], db.op, receipts[s])
      BY <2>2, <2>4, <2>5, KeptEmpty, Zenon
    <3>. QED BY <3>1, Zenon DEF Flow
  <2>8. Left(receipts)
    <3>1. ASSUME NEW s \in Runners
          PROVE  Kept(late[s], late'[s], db.op, receipts[s]) \/ Kept(up[s], late'[s], db.op, receipts[s])
      BY <2>2, <2>6, Zenon
    <3>. QED BY <3>1, Zenon DEF Left
  <2>. QED BY <2>3, <2>4, <2>5, <2>6, <2>7, <2>8
<1>1. /\ db' = Opened(db, r) /\ link' = [link EXCEPT ![r] = "up"] /\ session' = [session EXCEPT ![r] = TRUE]
      /\ \/ budget' = budget /\ routed' = routed
         \/ /\ Spend("late")
            /\ routed' = [routed EXCEPT ![<<r, "late">>] = routed[<<r, "up">>], ![<<r, "up">>] = None]
      /\ exporting' = [s \in Runners |-> IF Restarts(db, r) /\ exporting[s].name = "export"
                                          THEN [exporting[s] EXCEPT !.name = "stale"] ELSE exporting[s]]
      /\ UNCHANGED <<busy, doomed, importing, image, made, receipts>>
  BY DEF Connect, store
<1>2. Types /\ OpsInv /\ DelInv /\ HomeInv /\ Exports /\ Routes /\ db \in Rows /\ RowInv(db)
  BY Rest
<1>3. /\ db' \in Rows /\ RowInv(db') /\ Same(db, db') /\ db'.home = db.home
      /\ db'.op = db.op /\ db'.source = db.source
      /\ db'.state = "deleting_source" <=> db.state = "deleting_source"
      /\ \A c \in db'.cmds : c.kind = "delete" => (c.to # r /\ c \in db.cmds) \/ (c.to = r /\ c.state = "pending")
  BY <1>1, <1>2, OpenedRows DEF Same
<1>4. budget' \in [Bounds -> Nat]
  BY <1>1, <1>2, Spends DEF Bounds
<1>5. link' \in [Runners -> Links] /\ session' \in [Runners -> BOOLEAN]
  BY <1>1, <1>2 DEF Types, Links
<1>6. exporting' \in [Runners -> Exported] /\ Exports'
  <2>1. exporting \in [Runners -> Exported]
    BY <1>2 DEF Types
  <2>2. ASSUME NEW s \in Runners
        PROVE  exporting'[s] \in Exported /\ exporting'[s].op = exporting[s].op /\ exporting'[s].phase = exporting[s].phase
    <3>1. exporting[s] \in Exported
      BY <2>1
    <3>. DEFINE x == [exporting[s] EXCEPT !.name = "stale"]
    <3>2. x \in Exported /\ x.op = exporting[s].op /\ x.phase = exporting[s].phase
      BY <3>1, Zenon DEF Exported, Names
    <3>3. exporting'[s] = x \/ exporting'[s] = exporting[s]
      BY <1>1
    <3>. HIDE DEF x
    <3>. QED BY <3>1, <3>2, <3>3, Zenon
  <2>3. exporting' \in [Runners -> Exported]
    BY <1>1, <2>2
  <2>4. \A s \in Runners : exporting'[s].phase # "off" => exporting'[s].op \in 1..db'.op
    BY <1>2, <1>3, <2>2, Zenon DEF Exports
  <2>. QED BY <2>3, <2>4, Zenon DEF Exports
<1>7. routed' \in [Runners \X Sides -> Transfers \cup {None}] /\ Routes'
  <2>1. routed \in [Runners \X Sides -> Transfers \cup {None}] /\ <<r, "up">> \in Runners \X Sides
    BY <1>2 DEF Types, Sides
  <2>2. /\ routed' \in [Runners \X Sides -> Transfers \cup {None}]
        /\ \A k \in Runners \X Sides : routed'[k] = None \/ \E j \in Runners \X Sides : routed'[k] = routed[j]
    BY <1>1, <2>1
  <2>3. \A k \in Runners \X Sides : routed'[k] # None => routed'[k].op \in 1..db'.op
    BY <1>2, <1>3, <2>2 DEF Routes
  <2>. QED BY <2>2, <2>3, Zenon DEF Routes
<1>8. Types'
  BY <1>1, <1>2, <1>3, <1>4, <1>5, <1>6, <1>7, <1>ConnectQueues, Zenon DEF Types
<1>9. OpsInv'
  BY <1>2, <1>3, <1>6, <1>7, <1>ConnectQueues, OpsKept, Zenon
<1>10. DelInv'
  <2>1. CASE r = db.source
    <3>1. \A s \in Runners : s # r => ~Has(up[s]) /\ ~Has(down[s])
      BY <1>2, <2>1, Zenon DEF DelInv, Deleting
    <3>2. \A s \in Runners : ~Has(up'[s]) /\ ~Has(down'[s])
      BY <3>1, <1>ConnectQueues, Zenon DEF Flow, Kept
    <3>. QED BY <3>2, NoneLeft
  <2>2. CASE r # db.source
    <3>1. Pending(db') => Pending(db)
      BY <1>3, <2>2, Zenon DEF Pending, RowInv
    <3>. QED BY <1>2, <1>3, <3>1, <1>ConnectQueues, DelFlow, Zenon
  <2>. QED BY <2>1, <2>2
<1>11. HomeInv' /\ Imports
  BY <1>1, <1>2, <1>3, HomeKept, Rest DEF store
<1>. QED BY <1>1, <1>3, <1>8, <1>9, <1>10, <1>11, <1>ConnectQueues, Steady, Zenon DEF store

(* Every step keeps it.                                                    *)
LEMMA NextInv ==
  ASSUME RelocationInv, [Next]_vars
  PROVE  RelocationInv'
<1>1. CASE UNCHANGED vars
  <2>1. UNCHANGED <<db, link, up, down, late, routed, session, busy, doomed, exporting, importing, image, made, receipts, budget>>
    BY <1>1 DEF vars, wire, runner, store
  <2>2. Types'
    BY <2>1, Rest, Zenon DEF Types
  <2>. QED BY <2>1, <2>2, Rest, CalmRows, Zenon DEF store
<1>2. CASE \E r \in Runners : Loop(r) \/ Export(r) \/ EndSession(r) \/ Faults(r)
  BY <1>2, RunnerKept, Zenon
<1>3. CASE \E r \in Runners : Handler(r) \/ Superseded(r) \/ Notice(r)
  BY <1>3, HandlerKept, Zenon
<1>4. CASE \E r \in Runners : Relocate(r) \/ Deliver(r) \/ Connect(r)
  BY <1>4, RelocateKept, DeliverKept, ConnectKept, Zenon
<1>. QED BY <1>1, <1>2, <1>3, <1>4, Zenon DEF Next

(* The invariant, for any Runners, any first home, any size of image and   *)
(* any scenarios: where a deletion may be, what an import rests on, and    *)
(* what the home's image rests on, after every order of the control        *)
(* plane's transactions and the Runners' steps.                            *)
THEOREM RelocationInvariant == Spec => []RelocationInv
<1>1. Init => RelocationInv
  BY InitInv
<1>2. RelocationInv /\ [Next]_vars => RelocationInv'
  BY NextInv
<1>. QED BY <1>1, <1>2, PTL DEF Spec

(* The rows, the links and the images only ever hold the values the code   *)
(* has for them: no transaction writes another mutation_state, operation   *)
(* state or home.                                                          *)
THEOREM TypesHold == Spec => []TypeOK
<1>1. RelocationInv => TypeOK
  <2>1. Types => TypeOK
    <3>1. Types => db \in Rows /\ link \in [Runners -> Links] /\ image \in [Runners -> Images] /\ budget \in [Bounds -> Nat]
      BY Zenon DEF Types
    <3>2. db \in Rows => db.home \in Runners /\ db.slot \in Slots /\ db.operation \in Outcomes
      BY RowFields
    <3>. QED BY <3>1, <3>2, Zenon DEF TypeOK, Slots, Outcomes, Links, Images
  <2>. QED BY <2>1, Zenon DEF RelocationInv
<1>. QED BY <1>1, RelocationInvariant, PTL

(* commitWorkspaceRelocation moves the home only to a Runner whose import  *)
(* published an image, and the deletion it queues reaches only the source: *)
(* the Runner the rows name as the home always holds a published image,    *)
(* whatever is lost, repeated, late or cut short by a crash.               *)
THEOREM HomeKeepsImage == Spec => []HomeHoldsImage
<1>1. RelocationInv => HomeHoldsImage
  BY Zenon DEF RelocationInv, HomeInv, HomeHoldsImage
<1>. QED BY <1>1, RelocationInvariant, PTL

=============================================================================
