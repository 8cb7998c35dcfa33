---------------------------- MODULE TraceTarget ----------------------------
(***************************************************************************)
(* One target as the program runs it: the engine of TraceEngine and the    *)
(* task that names its hops (run_dns_resolver in src/src/trace/dns.rs),    *)
(* which share the record and the token.  The task collects the rows that  *)
(* need a name under a read lock, looks the addresses up one by one with   *)
(* no lock held, and writes each answer back under the write lock, by      *)
(* which time the row may show another address.                            *)
(***************************************************************************)
EXTENDS TraceEngine, FiniteSets

CONSTANTS
  CacheCapacity    \* the max_entries of DnsCache, 256

\* A row and the address it showed when it was collected.
Lookup == [idx : Nat, addr : Addr]

ASSUME CacheAssumption ==
  /\ CacheCapacity \in Nat \ {0}
  /\ None \notin Lookup

VARIABLES
  dnsPc,           \* where the task is
  work,            \* addrs_to_resolve: the rows still to be looked up
  item,            \* the row being looked up, (idx, addr) in the code
  answer,          \* the hostname that resolve returned for it
  cache            \* DnsCache::entries, as a total function

dnsVars == <<dnsPc, work, item, answer, cache>>
targetVars == <<engineVars, dnsVars>>

\* A cache entry says whether the address has a name.
Entry == {"absent", "negative", "positive"}
Cached == {a \in Addr : cache[a] # "absent"}
NameOf(a) == IF cache[a] = "positive" THEN a ELSE None

-----------------------------------------------------------------------------
DnsInit ==
  /\ dnsPc = "start"
  /\ work = {}
  /\ item = None
  /\ answer = None
  /\ cache = [a \in Addr |-> "absent"]

TargetInit == Init /\ DnsInit

\* DnsResolver::new may fail, and --no-dns ends the task before its loop.
StartDns ==
  /\ dnsPc = "start"
  /\ dnsPc' \in {"collect", "done"}
  /\ UNCHANGED <<engineVars, work, item, answer, cache>>

\* Mutant: named rows are looked up again.
NeedsLookupNamed(h) == h.addr # None /\ h.addr \notin Cached

\* Mutant: rows that never answered are collected as well.
NeedsLookupSilent(h) == h.hostname = None /\ h.addr \notin Cached

\* A row needs a lookup: an address, no name, and no cache entry.
NeedsLookup(h) == h.addr # None /\ h.hostname = None /\ h.addr \notin Cached

\* The rows that need a lookup, under the read lock.
CollectRows ==
  /\ dnsPc = "collect"
  /\ work' = {[idx |-> i, addr |-> hops[i].addr] :
                i \in {j \in DOMAIN hops : NeedsLookup(hops[j])}}
  /\ dnsPc' = "resolve"
  /\ UNCHANGED <<engineVars, item, answer, cache>>

\* The token is only looked at before a lookup.
CancelBeforeLookup ==
  /\ dnsPc = "resolve"
  /\ work # {}
  /\ cancelled
  /\ dnsPc' = "done"
  /\ UNCHANGED <<engineVars, work, item, answer, cache>>

\* The rows are taken in the order of the table.
TakeRow(w) ==
  /\ dnsPc = "resolve"
  /\ w \in work
  /\ \A v \in work : w.idx <= v.idx
  /\ ~cancelled
  /\ work' = work \ {w}
  /\ item' = w

\* resolve: the address was looked up for an earlier row of this pass.
ResolveFromCache ==
  /\ \E w \in work : /\ TakeRow(w)
                     /\ w.addr \in Cached
                     /\ answer' = NameOf(w.addr)
  /\ dnsPc' = "write"
  /\ UNCHANGED <<engineVars, cache>>

\* Mutant: resolve does not consult the cache.
SendLookupAlways ==
  /\ \E w \in work : TakeRow(w)
  /\ dnsPc' = "lookup"
  /\ UNCHANGED <<engineVars, answer, cache>>

\* resolve: the reverse lookup is sent.
SendLookup ==
  /\ \E w \in work : TakeRow(w) /\ w.addr \notin Cached
  /\ dnsPc' = "lookup"
  /\ UNCHANGED <<engineVars, answer, cache>>

\* Mutant: the cache is emptied one entry too late.
InsertLate(a, e) ==
  [b \in Addr |-> IF b = a THEN e
                  ELSE IF Cardinality(Cached) > CacheCapacity THEN "absent"
                  ELSE cache[b]]

\* insert: a full cache is emptied before the entry goes in.
Insert(a, e) ==
  [b \in Addr |-> IF b = a THEN e
                  ELSE IF Cardinality(Cached) >= CacheCapacity THEN "absent"
                  ELSE cache[b]]

\* Mutant: a failed lookup is not remembered.
FinishLookupForgets ==
  /\ dnsPc = "lookup"
  /\ \E e \in {"negative", "positive"} :
       /\ cache' = IF e = "positive" THEN Insert(item.addr, e) ELSE cache
       /\ answer' = IF e = "positive" THEN item.addr ELSE None
  /\ dnsPc' = "write"
  /\ UNCHANGED <<engineVars, work, item>>

\* The answer, or the failure, of the reverse lookup arrives.
FinishLookup ==
  /\ dnsPc = "lookup"
  /\ \E e \in {"negative", "positive"} :
       /\ cache' = Insert(item.addr, e)
       /\ answer' = IF e = "positive" THEN item.addr ELSE None
  /\ dnsPc' = "write"
  /\ UNCHANGED <<engineVars, work, item>>

\* Mutant: the name goes into the row whatever it shows by now.
RenamedBlindly(i, a, name) ==
  IF i \in DOMAIN hops THEN [hops EXCEPT ![i].hostname = name] ELSE hops

\* The name goes into the row, if the row is still there and still shows the
\* address that was looked up.
Renamed(i, a, name) ==
  IF i \in DOMAIN hops /\ hops[i].addr = a
  THEN [hops EXCEPT ![i].hostname = name]
  ELSE hops

WriteName ==
  /\ dnsPc = "write"
  /\ hops' = Renamed(item.idx, item.addr, answer)
  /\ item' = None
  /\ answer' = None
  /\ dnsPc' = "resolve"
  /\ UNCHANGED <<round, paused, cancelled, local, work, cache>>

\* Mutant: the task sleeps without listening to the token.
FinishPassDeaf ==
  /\ dnsPc = "resolve"
  /\ work = {}
  /\ dnsPc' = "sleep"
  /\ UNCHANGED <<engineVars, work, item, answer, cache>>

\* Nothing left to look up: the select polls a fresh sleep and the token.
FinishPass ==
  /\ dnsPc = "resolve"
  /\ work = {}
  /\ dnsPc' = IF cancelled THEN "done" ELSE "sleep"
  /\ UNCHANGED <<engineVars, work, item, answer, cache>>

\* 100 ms later, or as soon as the token fires.
WakeDns ==
  /\ dnsPc = "sleep"
  /\ \/ dnsPc' = "collect"
     \/ cancelled /\ dnsPc' = "done"
  /\ UNCHANGED <<engineVars, work, item, answer, cache>>

DnsStep ==
  \/ StartDns \/ CollectRows \/ CancelBeforeLookup \/ ResolveFromCache
  \/ SendLookup \/ FinishLookup \/ WriteName \/ FinishPass \/ WakeDns

TargetNext ==
  \/ EngineNext /\ UNCHANGED dnsVars
  \/ DnsStep

TargetSpec == TargetInit /\ [][TargetNext]_targetVars

\* Both tasks keep running: every probe and every lookup comes to an end (the
\* receives and the resolver have timeouts).  The user owes nothing.
TargetFairSpec ==
  /\ TargetSpec
  /\ WF_targetVars(EngineStep /\ UNCHANGED dnsVars)
  /\ WF_targetVars(DnsStep)

-----------------------------------------------------------------------------
(* Properties.                                                             *)

TargetTypeOK ==
  /\ TypeOK
  /\ dnsPc \in {"start", "collect", "resolve", "lookup", "write", "sleep", "done"}
  /\ work \subseteq Lookup
  /\ item \in Lookup \cup {None}
  /\ answer \in Addr \cup {None}
  /\ cache \in [Addr -> Entry]

\* The table has one row per ttl, in order, never more than max_hops, and a
\* name shown in a row is the name of the address shown in it, however the
\* address changed while the lookup was under way (add_probe drops the name,
\* run_dns_resolver compares the address before it writes).
NamesMatch ==
  /\ Len(hops) <= MaxHops
  /\ \A i \in DOMAIN hops : /\ hops[i].ttl = i
                            /\ hops[i].hostname \in {None, hops[i].addr}

\* The cache never outgrows its limit, and a reverse lookup is only under way
\* for an address it does not know, so an address two rows share is looked up
\* once per pass (DnsCache::insert, DnsResolver::resolve).
CacheSound ==
  /\ Cardinality(Cached) <= CacheCapacity
  /\ dnsPc = "lookup" => item.addr \notin Cached

Pending == work \cup (IF item = None THEN {} ELSE {item})

\* What the task collected stays valid across its awaits: the rows are still
\* there, each is looked up once per pass, and a row that shows the collected
\* address, or shows it again, has no name yet, so writing the answer never
\* takes a name away (run_dns_resolver, ensure_hop, reset_all, add_probe).
PendingRowsUnnamed ==
  /\ \A w \in Pending :
       /\ w.idx \in DOMAIN hops
       /\ hops[w.idx].addr = w.addr => hops[w.idx].hostname = None
  /\ \A v, w \in Pending : v.idx = w.idx => v = w
  /\ item # None => item \notin work

\* The record's readers see whole rounds, resets and names, and nothing else.
Record ==
  INSTANCE TraceRecord WITH total <- localRound + (IF pc = "bump" THEN 1 ELSE 0)
RecordSpec == Record!Spec

\* A cancelled target's tasks both end.
CancelStopsBoth == cancelled ~> (pc = "done" /\ dnsPc = "done")

Shows(i, a) == i \in DOMAIN hops /\ hops[i].addr = a
Named(i, a) == i \in DOMAIN hops /\ hops[i].hostname = a

\* A row that keeps an address gets that address looked up, unless the task
\* has ended (run_dns_resolver's loop, whatever work it is busy with).
RowsLookedUp ==
  \A i \in 1..MaxHops, a \in Addr :
    <>[]Shows(i, a) => <>(dnsPc = "done" \/ a \in Cached)

\* Once an address is known to have a name, a row that keeps showing the
\* address ends up showing the name ("Background task that resolves hostnames
\* for hops in TraceState", src/src/trace/dns.rs:80).
RowsNamed ==
  \A i \in 1..MaxHops, a \in Addr :
    <>[](Shows(i, a) /\ cache[a] = "positive" /\ dnsPc # "done")
      => <>[]Named(i, a)

=============================================================================
