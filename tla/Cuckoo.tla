--------------------------------- MODULE Cuckoo ---------------------------------
(***************************************************************************)
(* The hash table of the scanners (scanners/libuguu/cuckoo.c), used by     *)
(* dtread.c to find directories by id.  An insertion displaces elements;   *)
(* growing, shrinking and a change of the hash functions move everything   *)
(* to a new table by insertions, which may in turn start a rehash.         *)
(*                                                                         *)
(* levels is the stack of calls: the first is the table of the caller, and *)
(* each other one the new table the level before it is moved to.           *)
(***************************************************************************)
EXTENDS Integers, Sequences, FiniteSets

CONSTANTS
  Keys,       \* an element: a key with its data
  Free,       \* the key 0: nothing is in the slot, or in hand
  Hashes,     \* pairs of hash functions, as functions of table and key
  MayFail,    \* whether calloc() may return NULL
  MaxLevels   \* bound of the model: nested rehashes

ASSUME CuckooAssumption ==
  /\ Free \notin Keys
  /\ Hashes \subseteq [{1, 2} \X Keys -> Nat]
  /\ MayFail \in BOOLEAN
  /\ MaxLevels \in Nat

VARIABLES
  levels,   \* sequence of records, see Idle
  adding,   \* the key the caller is inserting, or Free
  short     \* the last call ran out of memory

vars == <<levels, adding, short>>

-----------------------------------------------------------------------------
(* struct cuckoo_ctx: each of two tables has size (1 << log) slots.        *)
Index(c, t, k) == c.hash[<<t, k>>] % c.size
Slots(size) == {1, 2} \X (0..size - 1)

Alloc(log, size, hash) ==
  [log |-> log, size |-> size, hash |-> hash, items |-> 0, slot |-> [p \in Slots(size) |-> Free]]

Present(c, k) == \E t \in {1, 2} : c.slot[<<t, Index(c, t, k)>>] = k
Elements(c) == {c.slot[p] : p \in DOMAIN c.slot} \ {Free}

\* the slots in the order cuckoo_move visits them
Visited(c, n) == c.slot[<<(n % 2) + 1, n \div 2>>]

(* A call of cuckoo_insert: the table, what the call does next, the        *)
(* element in hand, the slots tried, and, on a new table, how many slots   *)
(* of the level before have been moved.                                    *)
Idle(c, moved) == [ctx |-> c, state |-> "idle", hand |-> Free, tries |-> 0, moved |-> moved]

Top == levels[Len(levels)]
Becomes(level) == levels' = [levels EXCEPT ![Len(levels)] = level]

Init == adding = Free /\ short = FALSE /\ \E h \in Hashes : levels = <<Idle(Alloc(0, 1, h), 0)>>

-----------------------------------------------------------------------------
(* cuckoo_rehash begins; state tells where the level goes on afterwards.   *)
Rehash(level, state, log, size) ==
  /\ Len(levels) < MaxLevels
  /\ \E h \in Hashes :
       levels' = Append([levels EXCEPT ![Len(levels)] = [level EXCEPT !.state = state]],
                        Idle(Alloc(log, size, h), 0))
  /\ UNCHANGED adding

(* A call returns 0, and so do all the calls it is nested in, which free   *)
(* the new tables.                                                         *)
Unwind == levels' = <<Idle(levels[1].ctx, 0)>> /\ adding' = Free

Insert(k) ==
  /\ Len(levels) = 1 /\ Top.state = "idle"
  /\ short' = FALSE
  /\ adding' = k
  /\ Becomes([Top EXCEPT !.state = "check", !.hand = k])

Refuse == Top.state = "check" /\ Present(Top.ctx, Top.hand) /\ Unwind /\ UNCHANGED short

Begin(level) == [level EXCEPT !.state = "loop", !.tries = 0]

\* only the table of size 1 grows
RoomUnlessEmpty(c) == c.log # 0
Room(c) == c.size - 1 > c.items

Full == Top.state = "check" /\ ~Present(Top.ctx, Top.hand) /\ ~Room(Top.ctx)
Grow == Full /\ Rehash(Top, "grow", Top.ctx.log + 1, 2 * Top.ctx.size) /\ UNCHANGED short

Enough ==
  /\ Top.state = "check" /\ ~Present(Top.ctx, Top.hand) /\ Room(Top.ctx)
  /\ Becomes(Begin(Top))
  /\ UNCHANGED <<adding, short>>

\* one half of a turn of the loop of cuckoo_insert, for each of the tables
Aim(level) ==
  LET t == (level.tries % 2) + 1 IN <<t, Index(level.ctx, t, level.hand)>>
Trying == Top.state = "loop" /\ Top.tries < 6 * Top.ctx.log

\* the element stays in hand, too
PlaceInHand ==
  /\ Trying
  /\ Top.ctx.slot[Aim(Top)] = Free
  /\ Becomes([Top EXCEPT !.ctx.slot[Aim(Top)] = Top.hand, !.ctx.items = @ + 1, !.state = "idle"])
  /\ adding' = IF Len(levels) = 1 THEN Free ELSE adding
  /\ UNCHANGED short

Place ==
  /\ Trying
  /\ Top.ctx.slot[Aim(Top)] = Free
  /\ Becomes(Idle([Top.ctx EXCEPT !.slot[Aim(Top)] = Top.hand, !.items = @ + 1], Top.moved))
  /\ adding' = IF Len(levels) = 1 THEN Free ELSE adding
  /\ UNCHANGED short

Displace ==
  /\ Trying
  /\ Top.ctx.slot[Aim(Top)] # Free
  /\ Becomes([Top EXCEPT !.ctx.slot[Aim(Top)] = Top.hand,
                         !.hand = Top.ctx.slot[Aim(Top)],
                         !.tries = @ + 1])
  /\ UNCHANGED <<adding, short>>

GivingUp == Top.state = "loop" /\ ~Trying
\* the rehash is followed by the insertion of the new key, not the displaced one
ExhaustedForgetful ==
  /\ GivingUp
  /\ Rehash([Top EXCEPT !.hand = IF Len(levels) = 1 THEN adding ELSE @], "check", Top.ctx.log, Top.ctx.size)
  /\ UNCHANGED short
Exhausted == GivingUp /\ Rehash(Top, "check", Top.ctx.log, Top.ctx.size) /\ UNCHANGED short

NoMemory == MayFail /\ (Full \/ GivingUp) /\ Unwind /\ short' = TRUE

-----------------------------------------------------------------------------
(* cuckoo_move: the next element of the level before is inserted.          *)
Moving == Len(levels) > 1 /\ Top.state = "idle"
Old == levels[Len(levels) - 1]
Left == {n \in Top.moved..2 * Old.ctx.size - 1 : Visited(Old.ctx, n) # Free}

Move ==
  /\ Moving
  /\ \E n \in Left :
       /\ \A m \in Left : n <= m
       /\ Becomes([Top EXCEPT !.state = "check", !.hand = Visited(Old.ctx, n), !.moved = n + 1])
  /\ UNCHANGED <<adding, short>>

\* the parameters of the hash functions are not copied
AdoptTables(c, new) == [new EXCEPT !.hash = c.hash]
Adopt(c, new) == new

Moved ==
  /\ Moving /\ Left = {}
  /\ levels' = Append(SubSeq(levels, 1, Len(levels) - 2),
       LET back == [Old EXCEPT !.ctx = Adopt(Old.ctx, Top.ctx)] IN
       IF Old.state = "grow" THEN Begin(back) ELSE back)
  /\ UNCHANGED <<adding, short>>

-----------------------------------------------------------------------------
Removed(c, k) ==
  [c EXCEPT !.slot = [p \in DOMAIN @ |-> IF p[2] = Index(c, p[1], k) /\ @[p] = k THEN Free ELSE @[p]],
            !.items = @ - 1]

\* 1U << (log - 1), which is undefined at log 0
Sparse(c) == c.items < c.size \div 2

(* cuckoo_delete of a key its caller has looked up (dtread.c:133, 210).    *)
Delete(k) ==
  /\ Len(levels) = 1 /\ Top.state = "idle" /\ Present(Top.ctx, k)
  /\ LET rest == Idle(Removed(Top.ctx, k), 0) IN
     \/ ~Sparse(rest.ctx) /\ Becomes(rest) /\ UNCHANGED adding /\ short' = FALSE
     \/ Sparse(rest.ctx) /\ Rehash(rest, "idle", rest.ctx.log - 1, rest.ctx.size \div 2) /\ short' = FALSE
     \/ Sparse(rest.ctx) /\ MayFail /\ Becomes(rest) /\ UNCHANGED adding /\ short' = TRUE

Next ==
  \/ \E k \in Keys : Insert(k) \/ Delete(k)
  \/ Refuse \/ Grow \/ Enough \/ Place \/ Displace \/ Exhausted \/ NoMemory
  \/ Move \/ Moved

Spec == Init /\ [][Next]_vars
-----------------------------------------------------------------------------
(* TYPE: all variables; only a waiting level has no turn, and a table that *)
(* is being filled never has to grow, as all that is moved fits into it.   *)
TypeOK ==
  /\ levels # <<>>
  /\ \A i \in DOMAIN levels :
       LET l == levels[i] IN
       /\ l.ctx.slot \in [Slots(l.ctx.size) -> Keys \cup {Free}]
       /\ l.ctx.hash \in Hashes
       /\ l.hand \in Keys \cup {Free}
       /\ (l.state = "idle") = (l.hand = Free)
       /\ l.state \in {"idle", "check", "loop", "grow"}
       /\ l.state = "grow" => i = 1 /\ Len(levels) > 1
  /\ adding \in Keys \cup {Free}
  /\ short \in BOOLEAN

(* SAFETY: on every table, also on one that is being filled, an element is *)
(* in one of the two slots its hash functions name, so that cuckoo_lookup  *)
(* finds it, and in no second one, so that cuckoo_rfree frees it once.     *)
FoundOnce ==
  \A i \in DOMAIN levels : LET c == levels[i].ctx IN
    \A p \in DOMAIN c.slot : c.slot[p] # Free =>
      /\ p[2] = Index(c, p[1], c.slot[p])
      /\ \A q \in DOMAIN c.slot \ {p} : c.slot[q] # c.slot[p]

(* SAFETY: between two calls the count is right and less than half of the  *)
(* slots are in use, over any sequence of insertions, deletions, nested    *)
(* rehashes and failures.  In particular a table with an element is not of *)
(* log 0, so that the shift by log - 1 in cuckoo_delete is defined; and    *)
(* dtread_readfile tests with the count that one directory is left.        *)
HalfEmpty ==
  Len(levels) = 1 /\ Top.state = "idle" =>
    /\ Top.ctx.items = Cardinality({p \in DOMAIN Top.ctx.slot : Top.ctx.slot[p] # Free})
    /\ Top.ctx.items < Top.ctx.size
    /\ Top.ctx.log = 0 => Top.ctx.items = 0

(* REFINEMENT: the table is a set of keys; a displaced element in hand     *)
(* belongs to it, the key that is being inserted does not yet.             *)
Content ==
  LET first == levels[1]
  IN IF first.hand = adding THEN Elements(first.ctx)
     ELSE (Elements(first.ctx) \cup {first.hand}) \ {adding}
T == INSTANCE Table WITH content <- Content
TableSpec == T!TableSpec
=============================================================================
