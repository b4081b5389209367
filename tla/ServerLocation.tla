---------------------------- MODULE ServerLocation ----------------------------
(***************************************************************************)
(* ServerLocator.resolve for one domain: NAPTR and SRV candidates in the   *)
(* order of priority and weight, their addresses, and the cache.  Every    *)
(* send resolves in a thread of its own (asyncio.to_thread), so lookups    *)
(* overlap, DNS changes under them, and the slowest one writes the cache   *)
(* last.                                                                   *)
(***************************************************************************)
EXTENDS Integers, Sequences, SequencesExt, FiniteSetsExt

CONSTANTS
  Senders,    \* the lookups: one for each packet that may be under way
  Zones,      \* what DNS may hold for the domain: sets of SRV records
  AddressesOf,\* the A and AAAA answer of each host, a sequence
  NoHost,     \* the domain itself, when it has no SRV record
  MaxTargets, \* max_targets
  CacheTtl    \* cache_ttl, in ticks

HostsOf(zone) == {r.host : r \in zone}

ASSUME LocationAssumption ==
  /\ MaxTargets \in Nat \ {0} /\ CacheTtl \in Nat \ {0}
  /\ \A h \in DOMAIN AddressesOf : AddressesOf[h] \in Seq(Range(AddressesOf[h]))
  /\ \A records \in Zones :
       /\ HostsOf(records) \cup {NoHost} \subseteq DOMAIN AddressesOf
       /\ \A r \in records : r.priority \in Nat /\ r.weight \in Nat

VARIABLES
  zone,    \* what DNS holds now
  cache,   \* ServerLocator._cache at the domain
  lookup   \* the lookup of each sender

locationVars == <<zone, cache, lookup>>

\* todo: the records to expand; left: ticks until the expiry; age: ticks since
\* DNS was asked (history).  An expired entry is never read, so it is dropped
\* at once.
NoEntry == [targets |-> << >>, left |-> 0, age |-> 0]
NoLookup == [step |-> "none", todo |-> {}, found |-> << >>, left |-> 0, age |-> 0]

Older(n) == Min({n + 1, CacheTtl})
Sooner(n) == Max({n - 1, 0})

(***************************************************************************)
(* _weighted_order: the lowest priority first; within it a record of       *)
(* weight 0 is never drawn while another has a weight.                     *)
(***************************************************************************)
Candidates(records) ==
  IF records = {} THEN {[host |-> NoHost, priority |-> 0, weight |-> 0]} ELSE records

MutantDrawable(pending) == {r \in pending : \A o \in pending : r.weight >= o.weight}
Drawable(pending) ==
  LET group == {r \in pending : \A o \in pending : r.priority <= o.priority}
  IN {r \in group : r.weight > 0 \/ \A o \in group : o.weight = 0}

\* ServerTarget: an address with the priority and weight of its record.
TargetOf(r, address) == [address |-> address, priority |-> r.priority, weight |-> r.weight]

\* The loop over the addresses of a record: those not found yet, up to MaxTargets.
Expanded(found, r, addresses) ==
  LET upTo[i \in 0 .. Len(addresses)] ==
        IF i = 0 THEN found
        ELSE IF \/ Len(upTo[i - 1]) >= MaxTargets
                \/ Contains(upTo[i - 1], TargetOf(r, addresses[i]))
        THEN upTo[i - 1]
        ELSE Append(upTo[i - 1], TargetOf(r, addresses[i]))
  IN upTo[Len(addresses)]

\* Time of expiry: the clock is read before DNS is asked.
MutantExpiry(s) == CacheTtl
Expiry(s) == lookup[s].left

LocationInit ==
  /\ zone \in Zones
  /\ cache = NoEntry
  /\ lookup = [s \in Senders |-> NoLookup]

(***************************************************************************)
(* One lookup.                                                             *)
(***************************************************************************)

Ask(s) ==
  /\ lookup' = [lookup EXCEPT ![s] =
       IF cache.left > 0
       THEN [NoLookup EXCEPT !.step = "answered", !.found = cache.targets]
       ELSE [NoLookup EXCEPT !.step = "asking", !.left = CacheTtl]]
  /\ UNCHANGED <<zone, cache>>

\* _naptr_services and _srv_targets; the age counts from here.
Query(s) ==
  /\ lookup[s].step = "asking"
  /\ lookup' = [lookup EXCEPT ![s].step = "drawing",
                              ![s].todo = Candidates(zone), ![s].age = 0]
  /\ UNCHANGED <<zone, cache>>

Full(s) == Len(lookup[s].found) >= MaxTargets
Pending(s) == lookup[s].todo

\* The next candidate, and the addresses that getaddrinfo returns for it.
Draw(s) ==
  /\ lookup[s].step = "drawing" /\ Pending(s) # {} /\ ~Full(s)
  /\ \E r \in {o \in Drawable(Pending(s)) : AddressesOf[o.host] # << >>} :
       lookup' = [lookup EXCEPT ![s].todo = @ \ {r},
                                ![s].found = Expanded(@, r, AddressesOf[r.host])]
  /\ UNCHANGED <<zone, cache>>

\* getaddrinfo raises, as it may for any host and does for one without an
\* address: nothing is cached and the whole resolve fails.
DrawFails(s) ==
  /\ lookup[s].step = "drawing" /\ Pending(s) # {} /\ ~Full(s)
  /\ lookup' = [lookup EXCEPT ![s] = [NoLookup EXCEPT !.step = "failed"]]
  /\ UNCHANGED <<zone, cache>>

Store(s) ==
  /\ lookup[s].step = "drawing" /\ (Pending(s) = {} \/ Full(s))
  /\ cache' = IF Expiry(s) = 0 THEN NoEntry
              ELSE [targets |-> lookup[s].found, left |-> Expiry(s), age |-> lookup[s].age]
  /\ lookup' = [lookup EXCEPT ![s] = [NoLookup EXCEPT !.step = "answered",
                                                     !.found = lookup[s].found]]
  /\ UNCHANGED zone

LookupStep(s) == Query(s) \/ Draw(s) \/ DrawFails(s) \/ Store(s)

(***************************************************************************)
(* DNS and time.                                                           *)
(***************************************************************************)
ZoneChanges == zone' \in Zones \ {zone} /\ UNCHANGED <<cache, lookup>>

ClockTicks ==
  /\ cache' = IF cache.left <= 1 THEN NoEntry
              ELSE [cache EXCEPT !.left = Sooner(@), !.age = Older(@)]
  /\ lookup' = [s \in Senders |->
       IF lookup[s].step \in {"asking", "drawing"}
       THEN [lookup[s] EXCEPT !.left = Sooner(@), !.age = Older(@)] ELSE lookup[s]]
  /\ UNCHANGED zone

LocationNext ==
  \/ \E s \in Senders : (lookup[s].step \in {"none", "answered", "failed"} /\ Ask(s))
                        \/ LookupStep(s)
  \/ ZoneChanges \/ ClockTicks

LocationSpec == LocationInit /\ [][LocationNext]_locationVars

(***************************************************************************)
(* Properties                                                              *)
(***************************************************************************)

\* Whatever lookups overlap and whichever of them stores last, the cache hands
\* out nothing that DNS said more than cache_ttl ago.
CacheAge == cache.left > 0 => cache.left + cache.age <= CacheTtl

\* docs/PROTOCOL_CORE_LAYER2.md:19-21, "SRV priority/weight ordering": no
\* address is found before those of a record that comes earlier.
NotAfter(o, r) ==
  \/ o.priority < r.priority
  \/ o.priority = r.priority /\ (o.weight > 0 \/ r.weight = 0)
SrvOrder ==
  \A s \in Senders : \A r \in Pending(s) : \A t \in Range(lookup[s].found) : NotAfter(t, r)
=============================================================================
