------------------------------ MODULE BlockCache -------------------------------
(***************************************************************************)
(* The block cache of easy-fs.  A block is used inside a closure given to  *)
(* `read` or `modify`: `get_block_cache(..).lock().modify(..)` keeps one   *)
(* Arc of the cached block and its lock until the closure ends, and the    *)
(* closure may use further blocks.  The whole runs in one trap, so the     *)
(* accesses nest like calls: `held` is their stack.                        *)
(***************************************************************************)
EXTENDS Integers, Sequences, FiniteSetsExt, SequencesExt

CONSTANTS Blocks, Values,
          CacheSize,  \* BLOCK_CACHE_SIZE
          MaxNest     \* bound on nested accesses

ASSUME BoundAssumption == CacheSize \in Nat \ {0} /\ MaxNest \in Nat

VARIABLES disk,     \* block -> value
          object,   \* the live BlockCache objects
          queue,    \* of the manager: objects, oldest first
          held,     \* accesses in progress, innermost last
          machine   \* "running", "panic", or "spinning" on a lock

vars == <<disk, object, queue, held, machine>>

Objects == 1 .. CacheSize + MaxNest

Init ==
  /\ disk \in [Blocks -> Values]
  /\ object = <<>> /\ queue = <<>> /\ held = <<>>
  /\ machine = "running"

Running == machine = "running"

----------------------------------------------------------------------------
\* BlockCache: sync and drop.

\* sync: only a modified block is written.
SyncBlock(d, o) ==
  IF object[o].modified THEN [d EXCEPT ![object[o].block] = object[o].data] ELSE d

\* The copies of the Arc: one in the queue, one for each access.
StrongCount(o) ==
  Cardinality({i \in DOMAIN queue : queue[i] = o}) + Cardinality({i \in DOMAIN held : held[i].object = o})

\* An Arc goes; with the last one the object is dropped, and synced by that.
Released(o) == [x \in DOMAIN object \ (IF StrongCount(o) = 1 THEN {o} ELSE {}) |-> object[x]]

DiskAfter(o) == IF StrongCount(o) = 1 THEN SyncBlock(disk, o) ELSE disk

----------------------------------------------------------------------------
\* BlockCacheManager::get_block_cache, and the lock taken on its result.
Cached(b) == {i \in DOMAIN queue : object[queue[i]].block = b}

Locked(o) == \E i \in DOMAIN held : held[i].object = o

Full == Len(queue) = CacheSize

Victims == {i \in DOMAIN queue : StrongCount(queue[i]) = 1}

Access(o, modify) == [object |-> o, modify |-> modify]

\* Mistaken: the block is not marked.
MarkNever(x, modify) == x

\* get_mut marks the block before the closure runs.
Mark(x, modify) == [x EXCEPT !.modified = @ \/ modify]

Hit(b, modify) ==
  /\ Running /\ Len(held) < MaxNest
  /\ Cached(b) # {}
  /\ LET o == queue[Min(Cached(b))]
     IN /\ ~Locked(o)
        /\ object' = [object EXCEPT ![o] = Mark(@, modify)]
        /\ held' = Append(held, Access(o, modify))
  /\ UNCHANGED <<disk, queue, machine>>

\* The closure of a block that asks for the same block waits for itself.
Spin(b) ==
  /\ Running /\ Len(held) < MaxNest
  /\ Cached(b) # {} /\ Locked(queue[Min(Cached(b))])
  /\ machine' = "spinning"
  /\ UNCHANGED <<disk, object, queue, held>>

\* BlockCache::new reads the disk `d`.
Load(objects, d, b, modify) ==
  LET new == Min(Objects \ DOMAIN object)
  IN /\ object' = [o \in DOMAIN objects \cup {new} |->
                     IF o = new THEN Mark([block |-> b, data |-> d[b], modified |-> FALSE], modify)
                     ELSE objects[o]]
     /\ held' = Append(held, Access(new, modify))
     /\ disk' = d

Miss(b, modify) ==
  /\ Running /\ Len(held) < MaxNest
  /\ Cached(b) = {} /\ ~Full
  /\ Load(object, disk, b, modify)
  /\ queue' = Append(queue, Min(Objects \ DOMAIN object))
  /\ UNCHANGED machine

\* A full queue gives up its oldest block that nobody uses.
Replace(b, modify) ==
  /\ Running /\ Len(held) < MaxNest
  /\ Cached(b) = {} /\ Full
  /\ Victims # {}
  /\ LET idx == Min(Victims)
     IN /\ Load(Released(queue[idx]), DiskAfter(queue[idx]), b, modify)
        /\ queue' = Append(RemoveAt(queue, idx), Min(Objects \ DOMAIN object))
  /\ UNCHANGED machine

RunOut(b) ==
  /\ Running /\ Len(held) < MaxNest
  /\ Cached(b) = {} /\ Full
  /\ Victims = {}
  /\ machine' = "panic"
  /\ UNCHANGED <<disk, object, queue, held>>

----------------------------------------------------------------------------
\* The closure of the innermost access stores a value, or ends.
Store(v) ==
  /\ Running /\ held # <<>> /\ Last(held).modify
  /\ object' = [object EXCEPT ![Last(held).object].data = v]
  /\ UNCHANGED <<disk, queue, held, machine>>

Leave ==
  /\ Running /\ held # <<>>
  /\ held' = Front(held)
  /\ object' = Released(Last(held).object)
  /\ disk' = DiskAfter(Last(held).object)
  /\ UNCHANGED <<queue, machine>>

\* Mistaken: begins with the second block.
SyncedButOldest ==
  LET synced[k \in 0 .. Len(queue)] ==
        IF k <= 1 THEN disk ELSE SyncBlock(synced[k - 1], queue[k])
  IN synced[Len(queue)]

\* The disk after the queue was synced, oldest first.
Synced ==
  LET synced[k \in 0 .. Len(queue)] ==
        IF k = 0 THEN disk ELSE SyncBlock(synced[k - 1], queue[k])
  IN synced[Len(queue)]

\* block_cache_sync_all; its callers are outside every closure.
SyncAll ==
  /\ Running /\ held = <<>>
  /\ disk' = Synced
  /\ object' = [o \in DOMAIN object |-> [object[o] EXCEPT !.modified = FALSE]]
  /\ UNCHANGED <<queue, held, machine>>

\* The machine goes off, in the middle of anything, and boots again.
PowerCut ==
  /\ object' = <<>> /\ queue' = <<>> /\ held' = <<>>
  /\ machine' = "running"
  /\ UNCHANGED disk

Next ==
  \/ \E b \in Blocks :
       \/ \E modify \in BOOLEAN : Hit(b, modify) \/ Miss(b, modify) \/ Replace(b, modify)
       \/ Spin(b) \/ RunOut(b)
  \/ \E v \in Values : Store(v)
  \/ Leave \/ SyncAll \/ PowerCut

Spec == Init /\ [][Next]_vars

----------------------------------------------------------------------------
\* Properties.

TypeOK ==
  /\ disk \in [Blocks -> Values]
  /\ DOMAIN object \subseteq Objects
  /\ object \in [DOMAIN object -> [block : Blocks, data : Values, modified : BOOLEAN]]
  /\ queue \in Seq(DOMAIN object) /\ Len(queue) <= CacheSize
  /\ held \in Seq([object : DOMAIN object, modify : BOOLEAN]) /\ Len(held) <= MaxNest
  /\ machine \in {"running", "panic", "spinning"}

\* What a user of block b reads.
Shown ==
  [b \in Blocks |-> IF \E o \in DOMAIN object : object[o].block = b
                    THEN object[CHOOSE o \in DOMAIN object : object[o].block = b].data
                    ELSE disk[b]]

\* After sync_all the disk holds everything that was ever stored, whichever blocks
\* were replaced, read again or synced before.
SyncMakesDurable == [][SyncAll => disk' = Shown]_vars

\* The cache with its disk is a store of blocks: no replacement loses or revives a
\* value.
Plain == INSTANCE BlockStore WITH
  mem <- Shown, durable <- disk,
  using <- [i \in DOMAIN held |-> [block |-> object[held[i].object].block, modify |-> held[i].modify]]

StoreOfBlocks == Plain!Spec
=============================================================================
