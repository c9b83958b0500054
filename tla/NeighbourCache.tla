-------------------------- MODULE NeighbourCache --------------------------
(***************************************************************************)
(* The ARP cache of src/kernel/syscall/network.c and aos_services.c.  The  *)
(* NDP and DNS caches are the same code over other keys.  An entry is made *)
(* by a lookup that had to ask the network, and also by any ARP frame a    *)
(* program receives, so the same key is stored again while it is cached.   *)
(***************************************************************************)
EXTENDS Naturals, FiniteSets, FiniteSetsExt

CONSTANTS
    Entries,    \* SOCKET_ARP_CACHE_ENTRIES
    Devs, Addrs,
    TTL,        \* SOCKET_ARP_CACHE_TTL_TICKS
    MaxTick     \* bound of the clock

CacheAssumption ==
    /\ Entries \in Nat \ {0} /\ TTL \in Nat \ {0} /\ MaxTick \in Nat \ {0}
    /\ Devs # {} /\ Addrs # {}

VARIABLES
    cache,     \* g_arp_cache
    now,       \* timer_get_ticks()
    stored     \* when each key was last stored (0: never)

vars == <<cache, now, stored>>

Slots == 1..Entries
Keys == Devs \X Addrs

Empty == [valid |-> FALSE, key |-> CHOOSE k \in Keys : TRUE, expires |-> 0]

\* An invalid entry is never read again: its old contents are left out.
Drop(gone) == [i \in Slots |-> IF i \in gone THEN Empty ELSE cache[i]]

Init ==
    /\ cache = [i \in Slots |-> Empty]
    /\ now = 1 /\ stored = [k \in Keys |-> 0]

Expired(i) == cache[i].expires <= now
Dev(i) == cache[i].key[1]

Matches(k) == {i \in Slots : cache[i].valid /\ cache[i].key = k /\ ~Expired(i)}

\* The slot arp_cache_lookup answers from, or 0.
Answer(k) == IF Matches(k) = {} THEN 0 ELSE Min(Matches(k))

\* arp_cache_lookup: entries of the device found expired on the way are dropped.
Passed(k) == {i \in Slots : Dev(i) = k[1] /\ Expired(i) /\ (Answer(k) = 0 \/ i < Answer(k))}

Lookup(k) ==
    /\ cache' = Drop(Passed(k))
    /\ UNCHANGED <<now, stored>>

\* arp_cache_store stops at the first slot that is invalid or has the key,
\* and otherwise takes the entry that expires first.
Stops(k) == {i \in Slots : ~cache[i].valid \/ cache[i].key = k}

OldestSlots == {i \in Slots : \A j \in Slots : cache[i].expires <= cache[j].expires}
Victim == Min(OldestSlots)

SlotFor(k) == IF Stops(k) = {} THEN Victim ELSE Min(Stops(k))

Expiry == now + TTL

Store(k) ==
    /\ cache' = [cache EXCEPT ![SlotFor(k)] = [valid |-> TRUE, key |-> k, expires |-> Expiry]]
    /\ stored' = [stored EXCEPT ![k] = now]
    /\ UNCHANGED now

\* sys_arp_cache_info drops the entry it is asked for when it has expired.
Info(i) ==
    /\ cache' = Drop({i} \cap {j \in Slots : Expired(j)})
    /\ UNCHANGED <<now, stored>>

Flush(devs) ==
    /\ cache' = Drop({i \in Slots : Dev(i) \in devs})
    /\ UNCHANGED <<now, stored>>

Tick == now < MaxTick /\ now' = now + 1 /\ UNCHANGED <<cache, stored>>

Next ==
    \/ \E k \in Keys : Lookup(k) \/ Store(k)
    \/ \E i \in Slots : Info(i)
    \/ \E d \in Devs : Flush({d})
    \/ Flush(Devs)
    \/ Tick

Spec == Init /\ [][Next]_vars

----------------------------------------------------------------------------
TypeOK ==
    /\ cache \in [Slots -> [valid : BOOLEAN, key : Keys, expires : 0..(MaxTick + TTL)]]
    /\ now \in 1..MaxTick /\ stored \in [Keys -> 0..MaxTick]

(***************************************************************************)
(* A lookup answers with the entry of the latest store of its key (stores  *)
(* of one clock tick count as one), although a store stops at the first    *)
(* free slot and can leave an older entry of the same key behind it.       *)
(***************************************************************************)
FreshAnswer ==
    \A k \in Keys : Answer(k) # 0 => cache[Answer(k)].expires = stored[k] + TTL

(***************************************************************************)
(* A store takes a living entry of another key away only when no slot is   *)
(* free and no entry is older: what was learnt last is forgotten last.     *)
(***************************************************************************)
OldestEvicted ==
    [][\A k \in Keys :
         (Answer(k) # 0 /\ Answer(k)' = 0 /\ stored' # stored) =>
            \A i \in Slots : cache[i].valid /\ cache[i].expires >= stored[k] + TTL]_vars
=============================================================================
