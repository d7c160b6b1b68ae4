---------------------------- MODULE SqliteHandles ----------------------------
(***************************************************************************)
(* The native half of org.sqlite.android: what sqlite3_jni.c keeps for the *)
(* Java objects Database, Stmt, Vm, Blob and Backup.                       *)
(*                                                                         *)
(* A Database owns a handle: the SQLite connection and the lists of what   *)
(* was opened on it.  Each such child has a node with a pointer back to    *)
(* the handle.  Whichever of the two ends first has to tell the other, in  *)
(* the order in which the application closes its objects, or in which the  *)
(* finalizer thread meets them once they are garbage.                      *)
(*                                                                         *)
(* The application is one thread, as the documentation of Stmt asks.  The  *)
(* finalizer thread is the virtual machine's own.  The methods of children *)
(* take no lock that the finalization of their Database takes, and the     *)
(* finalize methods of children none that the methods of Database take: so *)
(* either thread is in the middle of something while the other goes on.    *)
(***************************************************************************)
EXTENDS Integers, Sequences, SequencesExt, FiniteSets, FiniteSetsExt

CONSTANTS
  Databases,       \* the Database objects
  Children,        \* the Stmt, Vm, Blob and Backup objects
  KindOf,          \* the class of each child
  MaxConnections   \* bound: connections open at the same time

Kinds == {"stmt", "vm", "blob", "backup"}

None == "none"

ASSUME HandleAssumption ==
  /\ KindOf \in [Children -> Kinds]
  /\ Databases \intersect Children = {} /\ None \notin Databases \union Children
  /\ MaxConnections \in Nat \ {0}

Lists == {"vms", "blobs", "backups"}
ListOf(k) ==
  CASE KindOf[k] \in {"stmt", "vm"} -> "vms"
    [] KindOf[k] = "blob" -> "blobs"
    [] KindOf[k] = "backup" -> "backups"

Connections == 1 .. MaxConnections
Closed == 0   \* the null pointer in handle.sqlite, hvm.vm, hbl.blob, hbk.bkup
Null == -1    \* in the place of the former: there is no handle, or no node

Empty == [l \in Lists |-> <<>>]
NoHandle == [sqlite |-> Null, lists |-> Empty]
NoNode == [h |-> None, obj |-> Null, dest |-> Closed]
Nobody == [k |-> None, after |-> None, freed |-> FALSE]
Idle == [k |-> None, h |-> None, after |-> None]
Resting == [d |-> None, v |-> None, obj |-> Null]

VARIABLES
  java,      \* of each object: whether the program still holds it
  handle,    \* of each Database: its handle, or NoHandle
  child,     \* of each child: its node, or NoNode
  open,      \* the SQLite connections that are open
  using,     \* the child whose method the application is in, and what it has read
  unlinking, \* the list entry the finalizer thread is about to take out
  closing,   \* the Database that it closes, and the child it has met there
  faults     \* the classes whose methods have worked on a closed connection;
             \* "twice" when a statement was finalized again, "raced" when a
             \* thread used a pointer that the other had changed

finalizer == <<unlinking, closing>>
handleVars == <<java, handle, child, open, using, finalizer, faults>>

Objects == Databases \union Children
Handle ==
  [sqlite : Connections \union {Closed}, lists : [Lists -> Seq(Children)]] \union {NoHandle}
Node == 
  {NoNode} \union
  [h : Databases \union {None}, obj : Connections \union {Closed}, dest : Connections \union {Closed}]

HandlesTypeOK ==
  /\ java \in [Objects -> {"unborn", "held", "garbage", "dead"}]
  /\ handle \in [Databases -> Handle]
  /\ child \in [Children -> Node]
  /\ open \subseteq Connections
  /\ faults \subseteq Kinds \union {"twice", "raced"}
  /\ using \in [k : Children \union {None}, h : Databases \union {None},
                after : Children \union {None}]
  /\ unlinking \in [k : Children \union {None}, after : Children \union {None}, freed : BOOLEAN]
  /\ closing \in [d : Databases \union {None}, v : Children \union {None},
                  obj : Connections \union {Closed, Null}]

HandlesInit ==
  /\ java = [o \in Objects |-> IF o \in Databases THEN "held" ELSE "unborn"]
  /\ handle = [d \in Databases |-> NoHandle]
  /\ child = [k \in Children |-> NoNode]
  /\ open = {}
  /\ using = Idle /\ unlinking = Nobody /\ closing = Resting
  /\ faults = {}

(* Where a race has broken a list or an object, what the program does with it
   is undefined, and no behaviour is followed.                               *)
Sound == "raced" \notin faults

(* The application calls methods of o one after the other. *)
Holds(o) == java[o] = "held" /\ Sound /\ using = Idle
(* The finalizer thread finalizes one object after the other. *)
Lost(o) == java[o] = "garbage" /\ Sound /\ unlinking = Nobody /\ closing = Resting

----------------------------------------------------------------------------
(* What the bridge asks of SQLite.                                          *)

Nodes == {k \in Children : child[k] # NoNode}
OpenOn(c, nodes) == {k \in DOMAIN nodes : nodes[k].obj = c}

(* Broken: the connection is closed whatever is open on it. *)
Sqlite3Close_(c, nodes, conns) == conns \ {c}

(* A connection with an unfinalized statement (a blob holds one), or that
   is the source of a backup, is not closed: the call answers SQLITE_BUSY.
   Being the destination of a backup does not keep it open.                 *)
Sqlite3Close(c, nodes, conns) == IF OpenOn(c, nodes) = {} THEN conns \ {c} ELSE conns

(* Connection numbers that nothing refers to any more: the lowest, as the
   numbers only tell connections apart.                                      *)
Free == (Connections \ open) \ {child[k].dest : k \in Nodes}
Fresh(n) ==
  {cs \in SUBSET Free : Cardinality(cs) = n /\ \A c \in cs, f \in Free \ cs : c < f}

(* The classes, among ks, of the SQLite objects that would work on a
   connection that is not one of conns.                                      *)
Astray(ks, conns) ==
  {KindOf[k] : k \in {x \in ks \intersect Nodes :
     /\ child[x].obj # Closed
     /\ ~({child[x].obj, child[x].dest} \subseteq conns \union {Closed})}}

----------------------------------------------------------------------------
(* Database.                                                                *)

(* Database.open, while the program holds the object.  A handle that is
   there already keeps its lists, and its former connection is closed if it
   can be.  The file is opened twice: the handle remembers the second
   connection only.  When the second call fails, a handle that was there
   already stays without a connection; a new one is not remembered.          *)
OpenDatabase(d) ==
  /\ Holds(d)
  /\ LET known == handle[d] # NoHandle
         left == IF known /\ handle[d].sqlite # Closed
                 THEN Sqlite3Close(handle[d].sqlite, child, open) ELSE open
     IN  \/ \E n \in {1, 2} : \E cs \in Fresh(n) :
              /\ open' = left \union cs
              /\ handle' = [handle EXCEPT ![d] =
                    [sqlite |-> Max(cs), lists |-> IF known THEN @.lists ELSE Empty]]
         \/ \E n \in {0, 1} : \E cs \in Fresh(n) :
              /\ open' = left \union cs
              /\ handle' = [handle EXCEPT ![d] =
                    IF known THEN [@ EXCEPT !.sqlite = Closed] ELSE @]
  /\ UNCHANGED <<java, child, using, finalizer, faults>>

(* doclose.  The statements are finalized, the connection is closed, and
   only then are blobs and backups.  Every child forgets the handle; its
   node stays with its Java object.  A statement that is still there is
   finalized twice; what the second call makes of the freed statement is
   undefined, and where it does harm the program ends here.  The application
   meets no other thread that closes this Database.                          *)
Listed(d, l) == ToSet(handle[d].lists[l])

Forget(nodes, ks) ==
  [k \in Children |-> IF k \in ks THEN [nodes[k] EXCEPT !.h = None, !.obj = Closed]
                      ELSE nodes[k]]

(* Broken: the connection is closed before the statements are finalized. *)
BeforeClosing_(d) == child

BeforeClosing(d) == Forget(child, Listed(d, "vms"))

DoClose(d) ==
  LET late == Listed(d, "blobs") \union Listed(d, "backups")
  IN  /\ open' = IF handle[d].sqlite = Closed THEN open
                 ELSE Sqlite3Close(handle[d].sqlite, BeforeClosing(d), open)
      /\ child' = Forget(child, Listed(d, "vms") \union late)
      /\ faults' = faults
           \union Astray(Listed(d, "vms"), open) \union Astray(late, open')
           \union {"twice" : k \in {v \in Listed(d, "vms") : child[v].obj # Closed}}
      /\ handle' = [handle EXCEPT ![d] = NoHandle]
      /\ unlinking' = IF unlinking # Nobody /\ child[unlinking.k].h = d
                      THEN [unlinking EXCEPT !.freed = TRUE] ELSE unlinking

CloseDatabase(d) ==
  /\ Holds(d)
  /\ handle[d] # NoHandle
  /\ DoClose(d)
  /\ UNCHANGED <<java, using, closing>>

----------------------------------------------------------------------------
(* Children: opening, using and closing them.                               *)

(* Database.compile and Database.prepare, Database.open_blob: a new node at
   the head of its list.  Without a handle the call throws, and without a
   connection SQLite refuses it.                                             *)
Create(d, k, dest) ==
  /\ Holds(d)
  /\ java[k] = "unborn"
  /\ handle[d] # NoHandle
  /\ handle[d].sqlite # Closed
  /\ java' = [java EXCEPT ![k] = "held"]
  /\ child' = [child EXCEPT ![k] = [h |-> d, obj |-> handle[d].sqlite, dest |-> dest]]
  /\ handle' = [handle EXCEPT ![d].lists[ListOf(k)] = <<k>> \o @]
  /\ UNCHANGED <<open, using, finalizer, faults>>

Compile(d, k) == KindOf[k] # "backup" /\ Create(d, k, Closed)

(* Database.backup: the node is put into the list of the source only. *)
Backup(d, to, k) ==
  /\ KindOf[k] = "backup"
  /\ Holds(to)
  /\ handle[to] # NoHandle
  /\ handle[to].sqlite \notin {Closed, handle[d].sqlite}
  /\ Create(d, k, handle[to].sqlite)

(* Where a list has the pointer to the node of k: at its head, or in the node
   before.                                                                   *)
Position(list, k) == CHOOSE i \in DOMAIN list : list[i] = k
Place(k) ==
  LET list == handle[child[k].h].lists[ListOf(k)]
      at == Position(list, k)
  IN  IF at = 1 THEN None ELSE list[at - 1]

(* A method of a child begins: it reads the pointer to the handle, and, if it
   is to take the node out of its list, finds its place there.               *)
Enter(k) ==
  /\ Holds(k)
  /\ child[k] # NoNode
  /\ using' = [k |-> k, h |-> child[k].h, after |-> IF child[k].h = None THEN None ELSE Place(k)]
  /\ UNCHANGED <<java, handle, child, open, finalizer, faults>>

(* It goes on, if the finalizer thread has not closed the Database meanwhile ... *)
Held(k) == using.k = k /\ Sound /\ child[k].h = using.h /\ using' = Idle

(* ... for what it does then to a child that has gone, or to a list that has
   changed, is undefined.                                                    *)
Overtaken ==
  LET k == using.k
  IN  /\ using # Idle /\ Sound
      /\ child[k].h = using.h =>
           KindOf[k] # "stmt" /\ using.h # None /\ Place(k) # using.after
      /\ faults' = faults \union {"raced"}
      /\ using' = Idle
      /\ UNCHANGED <<java, handle, child, open, finalizer>>

(* The child has been closed, or, for all but a backup, the database has been:
   the method throws.                                                        *)
Refuses(k) == child[k].obj = Closed \/ (KindOf[k] # "backup" /\ child[k].h = None)

(* Stmt.step and the reading methods, Blob.read and write, Backup.step. *)
Use(k) ==
  /\ Held(k)
  /\ faults' = IF Refuses(k) THEN faults ELSE faults \union Astray({k}, open)
  /\ UNCHANGED <<java, handle, child, open, finalizer>>

(* The SQLite object ends and the node stays: Stmt.close, and Vm.step when
   there is no further row.                                                  *)
End(k) ==
  /\ Held(k)
  /\ KindOf[k] \in {"stmt", "vm"}
  /\ ~Refuses(k)
  /\ child' = [child EXCEPT ![k].obj = Closed]
  /\ UNCHANGED <<java, handle, open, finalizer, faults>>

(* Stmt.prepare and Vm.compile: the next statement of the same text, if there
   is one, on the connection the handle has now.                             *)
Recompile(k) ==
  /\ Held(k)
  /\ KindOf[k] \in {"stmt", "vm"}
  /\ \E c \in {Closed} \union (IF child[k].h = None THEN {} ELSE {handle[child[k].h].sqlite}) :
       child' = [child EXCEPT ![k].obj = c]
  /\ UNCHANGED <<java, handle, open, finalizer, faults>>

(* dovmfinal, doblobfinal and Backup._finalize called by the application
   (Vm.stop, Blob.close, Backup.finish): the node leaves its list, the SQLite
   object ends, the node is freed.                                           *)
Without(list, k) == IF Contains(list, k) THEN RemoveAt(list, Position(list, k)) ELSE list

(* Broken: the node stays in its list. *)
Unlink_(k) == handle' = handle

Unlink(k) == handle' =
  IF child[k].h = None THEN handle
  ELSE [handle EXCEPT ![child[k].h].lists[ListOf(k)] = Without(@, k)]

FreeNode(k) ==
  /\ child' = [child EXCEPT ![k] = NoNode]
  /\ faults' = faults \union Astray({k}, open)

Finish(k) ==
  /\ Held(k)
  /\ KindOf[k] # "stmt"
  /\ using.h # None => Place(k) = using.after
  /\ Unlink(k)
  /\ FreeNode(k)
  /\ UNCHANGED <<java, open, finalizer>>

----------------------------------------------------------------------------
(* Garbage, and the finalizer thread.                                       *)

(* The program drops an object.  A child does not keep its Database alive,
   nor a Backup its destination.                                             *)
Drop(o) ==
  /\ Holds(o)
  /\ java' = [java EXCEPT ![o] = "garbage"]
  /\ UNCHANGED <<handle, child, open, using, finalizer, faults>>

(* doclose of a Database that is garbage, while the application may still use
   what was opened on it: each step takes one child out of its list.         *)
FinalizeDatabase(d) ==
  /\ Lost(d)
  /\ IF handle[d] = NoHandle
     THEN java' = [java EXCEPT ![d] = "dead"] /\ UNCHANGED closing
     ELSE closing' = [Resting EXCEPT !.d = d] /\ UNCHANGED java
  /\ UNCHANGED <<handle, child, open, using, unlinking, faults>>

Closes(d) == closing.d = d /\ closing.v = None /\ Sound

(* The statements come first, then the connection, the blobs, the backups. *)
MeetsNext(d, l) ==
  /\ handle[d].lists[l] # <<>>
  /\ l # "vms" => handle[d].lists["vms"] = <<>> /\ handle[d].sqlite = Closed
  /\ l = "backups" => handle[d].lists["blobs"] = <<>>

CloseMeets(d) ==
  /\ Closes(d)
  /\ \E l \in Lists :
       /\ MeetsNext(d, l)
       /\ LET v == Head(handle[d].lists[l])
          IN  closing' = [closing EXCEPT !.v = v, !.obj = child[v].obj]
  /\ UNCHANGED <<java, handle, child, open, using, unlinking, faults>>

(* It is taken out, is told that the handle goes, and its SQLite object ends,
   unless the application has ended or freed it since.                       *)
CloseTakes ==
  LET v == closing.v
      met == child[v].h = closing.d /\ child[v].obj = closing.obj
  IN  /\ v # None /\ Sound
      /\ \/ /\ met
            /\ Unlink(v)
            /\ child' = Forget(child, {v})
            /\ faults' = faults \union Astray({v}, open)
                 \union {"twice" : k \in {x \in {v} : ListOf(x) = "vms" /\ child[x].obj # Closed}}
         \/ /\ ~met
            /\ faults' = faults \union {"raced"}
            /\ UNCHANGED <<handle, child>>
      /\ closing' = [closing EXCEPT !.v = None, !.obj = Null]
      /\ UNCHANGED <<java, open, using, unlinking>>

CloseConnection(d) ==
  /\ Closes(d)
  /\ handle[d].lists["vms"] = <<>> /\ handle[d].sqlite \in Connections
  /\ open' = Sqlite3Close(handle[d].sqlite, child, open)
  /\ handle' = [handle EXCEPT ![d].sqlite = Closed]
  /\ UNCHANGED <<java, child, using, finalizer, faults>>

CloseEnds(d) ==
  /\ Closes(d)
  /\ handle[d] = [sqlite |-> Closed, lists |-> Empty]
  /\ handle' = [handle EXCEPT ![d] = NoHandle]
  /\ java' = [java EXCEPT ![d] = "dead"]
  /\ closing' = Resting
  /\ UNCHANGED <<child, open, using, unlinking, faults>>

(* The finalize method of a child whose database has been closed. *)
FinalizeChild(k) ==
  /\ Lost(k)
  /\ child[k].h = None
  /\ java' = [java EXCEPT ![k] = "dead"]
  /\ FreeNode(k)
  /\ UNCHANGED <<handle, open, using, finalizer>>

(* Otherwise it first walks the list to the pointer that points to the node. *)
FinalizeWalks(k) ==
  /\ Lost(k)
  /\ child[k].h # None
  /\ unlinking' = IF Contains(handle[child[k].h].lists[ListOf(k)], k)
                  THEN [k |-> k, after |-> Place(k), freed |-> FALSE]
                  ELSE [k |-> k, after |-> k, freed |-> FALSE]
  /\ UNCHANGED <<java, handle, child, open, using, closing, faults>>

(* And then it writes that pointer, whatever the application has done to the
   list meanwhile.  What was put in front of the node is cut off with it, and
   the handle, or the node before, may have been freed.                      *)
FinalizeWrites ==
  LET k == unlinking.k
      d == child[k].h
      gone == \/ unlinking.freed
              \/ unlinking.after # None /\ child[unlinking.after] = NoNode
      writes == ~gone /\ unlinking.after # k
  IN  /\ unlinking # Nobody /\ Sound
      /\ java' = [java EXCEPT ![k] = "dead"]
      /\ handle' = IF ~writes THEN handle
                   ELSE [handle EXCEPT ![d].lists[ListOf(k)] =
                          IF unlinking.after = None
                          THEN SubSeq(@, Position(@, k) + 1, Len(@))
                          ELSE Without(@, k)]
      /\ child' = [child EXCEPT ![k] = NoNode]
      /\ faults' = faults \union Astray({k}, open)
                   \union IF gone \/ (writes /\ unlinking.after # Place(k)) THEN {"raced"} ELSE {}
      /\ unlinking' = Nobody
      /\ UNCHANGED <<open, using, closing>>

HandlesNext ==
  \/ \E d \in Databases : OpenDatabase(d) \/ CloseDatabase(d)
  \/ \E d \in Databases, k \in Children : Compile(d, k)
  \/ \E d, to \in Databases, k \in Children : Backup(d, to, k)
  \/ \E k \in Children : Enter(k) \/ Use(k) \/ End(k) \/ Recompile(k) \/ Finish(k)
  \/ Overtaken
  \/ \E o \in Objects : Drop(o)
  \/ \E d \in Databases : FinalizeDatabase(d) \/ CloseMeets(d) \/ CloseConnection(d) \/ CloseEnds(d)
  \/ CloseTakes
  \/ \E k \in Children : FinalizeChild(k) \/ FinalizeWalks(k)
  \/ FinalizeWrites

HandlesSpec == HandlesInit /\ [][HandlesNext]_handleVars

----------------------------------------------------------------------------

(* Each list of a handle holds exactly the children that point back to the
   handle, each once, so that neither side is left with a pointer to what
   the other has freed: doclose and the final methods of the children undo
   each other's links in whatever order the objects end, and whatever the
   application does between the steps of a finalization.  What breaks them is
   a thread that is overtaken by the other in the middle of a list (NeverRaced). *)
ListsAreExact ==
  Sound =>
    /\ \A d \in Databases : handle[d] # NoHandle => \A l \in Lists :
         LET list == handle[d].lists[l]
         IN  /\ IsInjective(list)
             /\ ToSet(list) = {k \in Nodes : child[k].h = d /\ ListOf(k) = l}
    /\ \A k \in Nodes : child[k].h # None => handle[child[k].h] # NoHandle

(* No statement and no blob works on a connection that has been closed, in
   whatever order the program or the garbage collection ends the objects: a
   method that begins after its Database was closed, or between two steps of
   that, finds out.  (One that is overtaken by it does not: NeverRaced.  Nor
   does a backup, which nothing ties to its destination.)                    *)
ConnectionOutlivesItsChildren == faults \intersect {"stmt", "vm", "blob"} = {}

(* When a database is closed its statements never keep SQLite from closing
   the connection: only a blob or a backup that is still open does.          *)
CloseClosesTheConnection ==
  [][\A d \in Databases :
       /\ handle[d] # NoHandle
       /\ handle'[d] = NoHandle \/ (closing.d = d /\ handle'[d].sqlite = Closed)
       /\ handle[d].sqlite \in open'
       => \E k \in Nodes : child[k].obj = handle[d].sqlite /\ KindOf[k] \in {"blob", "backup"}]_handleVars

(* A program whose calls come from one thread, as the documentation of Stmt and
   of Blob asks, never has one thread use what the other has changed under it. *)
NeverRaced == Sound

(* A statement is finalized once. *)
FinalizedOnce == "twice" \notin faults

=============================================================================
