----------------------------- MODULE ZoneAlloc -----------------------------
(***************************************************************************)
(* The zone allocator of zone_alloc.c: memory is cut from zones of a fixed   *)
(* size, which are chained through a header at their beginning and freed all *)
(* at once.  zones is every zone that was ever allocated; a pointer into a    *)
(* zone is the number of the zone and an offset, NULL is zone 0.             *)
(***************************************************************************)
EXTENDS Integers, Sequences, FiniteSets

CONSTANTS ZONE_SIZE,
          HeaderSize,   \* sizeof(struct zone_header)
          Sizes,        \* the sizes that are requested
          MaxZones,     \* bound on the number of zones
          MaxBlocks     \* bound on the number of allocations between two calls of zone_free

ASSUME ZoneAssumption ==
    /\ ZONE_SIZE \in Nat /\ HeaderSize \in Nat /\ HeaderSize <= ZONE_SIZE
    /\ Sizes \subseteq Nat

VARIABLES zalloc,   \* the zone_allocator
          zones,    \* the header of each zone, and whether it was freed
          phase,    \* of the zone_allocator: "none", "live", "freeing"
          current,  \* of the loop of zone_free
          blocks,   \* the memory handed out since the initialisation
          dropped   \* history: the zones parser_init forgets

zoneVars == <<zalloc, zones, phase, current, blocks, dropped>>

\* Mutant: the header is not taken off.
WholeZone == ZONE_SIZE

MAX_ZONE_ALLOCATION == ZONE_SIZE - HeaderSize

\* (zone_allocator){}
Zeroed == [topZone |-> 0, zone |-> 0, ptr |-> 0, remaining |-> 0]

NewHeader(a) == [next |-> a.topZone, freed |-> FALSE]

\* _new_zone: the allocator, and the zones, after it.
NewZone(a) == [topZone |-> Len(zones) + 1, zone |-> Len(zones) + 1,
               ptr |-> HeaderSize, remaining |-> MAX_ZONE_ALLOCATION]

ZoneInit ==
    /\ zalloc = Zeroed
    /\ zones = <<>>
    /\ phase = "none"
    /\ current = 0
    /\ blocks = <<>>
    /\ dropped = {}

zone_init ==
    /\ phase = "none"
    /\ Len(zones) < MaxZones
    /\ zalloc' = NewZone(Zeroed)
    /\ zones' = Append(zones, NewHeader(Zeroed))
    /\ phase' = "live"
    /\ UNCHANGED <<current, blocks, dropped>>

\* The zone_allocator of a parser is initialised, then overwritten with zeros
\* with the rest of the parser.
parser_init ==
    /\ phase = "none"
    /\ Len(zones) < MaxZones
    /\ zalloc' = Zeroed
    /\ zones' = Append(zones, NewHeader(Zeroed))
    /\ phase' = "live"
    /\ dropped' = dropped \cup {Len(zones) + 1}
    /\ UNCHANGED <<current, blocks>>

Block(a, size) == [zone |-> a.zone, from |-> a.ptr, size |-> size]

Taken(a, size) == [a EXCEPT !.ptr = @ + size, !.remaining = @ - size]

\* What is left of the old zone is wasted when it does not hold size bytes.
zone_alloc(size) ==
    /\ phase = "live"
    /\ Len(blocks) < MaxBlocks
    /\ size <= MAX_ZONE_ALLOCATION
    /\ \/ /\ size <= zalloc.remaining
          /\ zalloc' = Taken(zalloc, size)
          /\ blocks' = Append(blocks, Block(zalloc, size))
          /\ UNCHANGED zones
       \/ /\ size > zalloc.remaining
          /\ Len(zones) < MaxZones
          /\ zalloc' = Taken(NewZone(zalloc), size)
          /\ blocks' = Append(blocks, Block(NewZone(zalloc), size))
          /\ zones' = Append(zones, NewHeader(zalloc))
    /\ UNCHANGED <<phase, current, dropped>>

\* zone_free: current starts at the newest zone.
zone_free ==
    /\ phase = "live"
    /\ phase' = "freeing"
    /\ current' = zalloc.topZone
    /\ blocks' = <<>>
    /\ UNCHANGED <<zalloc, zones, dropped>>

\* An iteration: the header is read before the zone is freed.
FreeZone ==
    /\ phase = "freeing"
    /\ current # 0
    /\ current' = zones[current].next
    /\ zones' = [zones EXCEPT ![current].freed = TRUE]
    /\ UNCHANGED <<zalloc, phase, blocks, dropped>>

EndFree ==
    /\ phase = "freeing"
    /\ current = 0
    /\ phase' = "none"
    /\ UNCHANGED <<zalloc, zones, current, blocks, dropped>>

ZoneNext ==
    \/ zone_init \/ parser_init
    \/ \E size \in Sizes : zone_alloc(size)
    \/ zone_free \/ FreeZone \/ EndFree

ZoneSpecification == ZoneInit /\ [][ZoneNext]_zoneVars

-----------------------------------------------------------------------------
Bytes(b) == b.from .. (b.from + b.size - 1)

\* What zone_alloc hands out is in a zone that is allocated, behind its header,
\* and shared with no other allocation, across any number of zone changes.
BlocksDisjoint ==
    \A i \in DOMAIN blocks :
        /\ blocks[i].size > 0 => /\ blocks[i].zone \in DOMAIN zones
                                 /\ ~zones[blocks[i].zone].freed
        /\ Bytes(blocks[i]) \subseteq HeaderSize..(ZONE_SIZE - 1)
        /\ \A j \in DOMAIN blocks \ {i} :
              blocks[i].zone = blocks[j].zone => Bytes(blocks[i]) \cap Bytes(blocks[j]) = {}

\* C holds zone z and with every zone the next one of its header.
Links(zs, z, C) ==
    /\ z # 0 => z \in C
    /\ \A c \in C : zs[c].next # 0 => zs[c].next \in C

\* The zones that can be reached from a header: the least such set.
Chain(zs, z) == {y \in DOMAIN zs : \A C \in SUBSET DOMAIN zs : Links(zs, z, C) => y \in C}

Held == CASE phase = "live" -> Chain(zones, zalloc.topZone)
          [] phase = "freeing" -> Chain(zones, current)
          [] phase = "none" -> {}

\* Every zone is freed once, and by the zone_free of its allocator: those not
\* freed yet are in its chain.  Only the zone that parser_init overwrites is lost.
ZonesAccounted == {z \in DOMAIN zones : ~zones[z].freed} = Held \cup dropped

\* No byte is handed out twice, and no zone is lost or freed twice.
ZonesSafe == BlocksDisjoint /\ ZonesAccounted
=============================================================================
