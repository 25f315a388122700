----------------------------- MODULE CodeArena -----------------------------
(***************************************************************************)
(* Executable memory: CodeArena, CodeMemory, CodeReservation and           *)
(* ExecutableCode of lib/Execution/CodeMemory.cpp.                         *)
(*                                                                         *)
(* Memory is a set of pages <<region, n>>.  A page has an access right, a  *)
(* content and the content the instruction cache holds for it; both        *)
(* contents name the batch and the payload last written there.  Region 0   *)
(* is the arena's mapping, region b the private mapping of batch b         *)
(* (CodeMemory::reserve).  A publication is a sequence of provider calls,  *)
(* each of which may fail after having changed some of the pages it was    *)
(* given; handles are dropped and reservations abandoned in between.       *)
(***************************************************************************)
EXTENDS Integers, Sequences

CONSTANTS Align,       \* slot alignment: 16 in the code
          Page,        \* the provider's page size
          SizeMax,     \* SIZE_MAX
          Capacities,  \* capacities an arena may be asked for
          Requests,    \* lists of slot sizes a reservation may be asked for
          Payloads,    \* what a publication may write
          MaxBatches   \* bound: reservations made in a behaviour

ASSUME PageAssumption ==
  /\ Align \in Nat \ {0}
  /\ Page \in Nat \ {0}
  /\ Page % Align = 0

ASSUME SizeAssumption ==
  /\ SizeMax \in Nat
  /\ Capacities \subseteq 0..SizeMax
  /\ Requests \subseteq Seq(0..SizeMax)
  /\ MaxBatches \in Nat

Batches == 1..MaxBatches
Regions == 0..MaxBatches
PageIds == 0..(SizeMax \div Page)
Pages == Regions \X PageIds
Nothing == <<0, "nothing">>
Written == (Batches \X Payloads) \cup {Nothing}

RoundUp(n, unit) == ((n + unit - 1) \div unit) * unit

Failure == [ok |-> FALSE, slots |-> <<>>, length |-> 0]

\* One iteration of the loop over the requested sizes.
AddSlot(layout, size) ==
  LET offset == RoundUp(layout.length, Align)
  IN  IF \/ ~layout.ok
         \/ size = 0
         \/ layout.length > SizeMax - (Align - 1)
         \/ size > SizeMax - offset
      THEN Failure
      ELSE [ok |-> TRUE,
            slots |-> Append(layout.slots, [offset |-> offset, size |-> size]),
            length |-> offset + size]

slot_layout(sizes) ==
  LET after[n \in 0..Len(sizes)] ==
        IF n = 0 THEN [ok |-> TRUE, slots |-> <<>>, length |-> 0]
                 ELSE AddSlot(after[n - 1], sizes[n])
      all == after[Len(sizes)]
  IN  IF sizes = <<>> \/ ~all.ok \/ all.length > SizeMax - (Page - 1)
      THEN Failure
      ELSE [all EXCEPT !.length = RoundUp(all.length, Page)]

Slot == [offset : Nat, size : Nat \ {0}]

WellFormed(layout) ==
  layout.ok =>
    /\ layout.length \in 1..SizeMax
    /\ layout.length % Page = 0
    /\ layout.slots \in Seq(Slot)
    /\ layout.slots # <<>>
    /\ \A i \in DOMAIN layout.slots :
         /\ layout.slots[i].offset + layout.slots[i].size <= layout.length
         /\ layout.slots[i].offset % Align = 0
         /\ \A j \in 1..(i - 1) :
              layout.slots[j].offset + layout.slots[j].size <= layout.slots[i].offset

VARIABLES
  arena,     \* "none" before create, "live", then "gone" (destroyed or moved from)
  capacity,  \* the arena mapping's size in bytes
  used,      \* CodeArena::used_
  batches,   \* the CodeReservations made so far, in order
  handles,   \* live ExecutableCode objects, as <<batch, slot>>
  mapped,    \* regions not yet released to the provider
  perm,      \* access right of each page: "rw" or "rx"
  content,   \* what each page holds
  icache,    \* what the processor fetches from each page
  publish    \* the CodeReservation::publish call in progress

memory == <<perm, content, icache>>
vars == <<arena, capacity, used, batches, handles, mapped, perm, content, icache, publish>>

Idle == [at |-> "idle", batch |-> 0, payload |-> "none"]

Reservation ==
  [region : Regions, start : Nat, length : Nat \ {0}, slots : Seq(Slot),
   state : {"open", "published", "abandoned"}]

TypeOK ==
  /\ arena \in {"none", "live", "gone"}
  /\ capacity \in 0..SizeMax
  /\ used \in 0..capacity
  /\ batches \in Seq(Reservation)
  /\ Len(batches) <= MaxBatches
  /\ handles \subseteq Batches \X (Nat \ {0})
  /\ mapped \subseteq Regions
  /\ perm \in [Pages -> {"rw", "rx"}]
  /\ content \in [Pages -> Written]
  /\ icache \in [Pages -> Written]
  /\ publish \in {Idle} \cup
       [at : {"writable", "restore", "copy", "executable", "again", "flush", "done"},
        batch : Batches, payload : Payloads]

\* The pages that the bytes [start, start + length) of a region lie on.
Touched(region, start, length) ==
  {<<region, n>> : n \in (start \div Page)..((start + length - 1) \div Page)}

\* The memory range a reservation passes to the provider.
Publication(b) == Touched(batches[b].region, batches[b].start, batches[b].length)

\* The pages its slots are copied to.
SlotPages(b) ==
  UNION {Touched(batches[b].region, batches[b].slots[i].offset, batches[b].slots[i].size)
           : i \in DOMAIN batches[b].slots}

-----------------------------------------------------------------------------
(* Region lifetime: a region is released with the last shared_ptr to it.   *)

Held(r, arenaState, reservations, codes) ==
  \/ r = 0 /\ arenaState = "live"
  \/ \E b \in DOMAIN reservations :
       reservations[b].region = r /\ reservations[b].state = "open"
  \/ \E h \in codes : reservations[h[1]].region = r

StillMapped(arenaState, reservations, codes) ==
  {r \in mapped : Held(r, arenaState, reservations, codes)}

-----------------------------------------------------------------------------
Init ==
  /\ arena = "none"
  /\ capacity = 0
  /\ used = 0
  /\ batches = <<>>
  /\ handles = {}
  /\ mapped = {}
  /\ perm = [p \in Pages |-> "rw"]
  /\ content = [p \in Pages |-> Nothing]
  /\ icache = [p \in Pages |-> Nothing]
  /\ publish = Idle

\* CodeArena::create; an invalid capacity or a mapping that cannot be had
\* leaves no arena.
Create(request) ==
  /\ arena = "none"
  /\ publish = Idle
  /\ request > 0
  /\ request <= SizeMax - (Page - 1)
  /\ arena' = "live"
  /\ capacity' = RoundUp(request, Page)
  /\ mapped' = mapped \cup {0}
  /\ UNCHANGED <<used, batches, handles, memory, publish>>

\* CodeArena::reserve: the next bytes of the arena's mapping, never reclaimed.
ReserveInArena(sizes) ==
  LET layout == slot_layout(sizes)
  IN  /\ arena = "live"
      /\ publish = Idle
      /\ Len(batches) < MaxBatches
      /\ layout.ok
      /\ layout.length <= capacity - used
      /\ batches' = Append(batches,
           [region |-> 0, start |-> used, length |-> layout.length, state |-> "open",
            slots |-> [i \in DOMAIN layout.slots |->
                        [offset |-> layout.slots[i].offset + used,
                         size |-> layout.slots[i].size]]])
      /\ used' = used + layout.length
      /\ UNCHANGED <<arena, capacity, handles, mapped, memory, publish>>

\* CodeMemory::reserve: a mapping of its own for one batch.
ReserveMapping(sizes) ==
  LET layout == slot_layout(sizes)
      b == Len(batches) + 1
  IN  /\ publish = Idle
      /\ b <= MaxBatches
      /\ layout.ok
      /\ batches' = Append(batches,
           [region |-> b, start |-> 0, length |-> layout.length, state |-> "open",
            slots |-> layout.slots])
      /\ mapped' = mapped \cup {b}
      /\ UNCHANGED <<arena, capacity, used, handles, memory, publish>>

-----------------------------------------------------------------------------
(* CodeReservation::publish.                                               *)

\* Faulty form: a consumed reservation is accepted.
PublishAgain(b, payload) ==
  /\ publish = Idle
  /\ publish' = [at |-> "writable", batch |-> b, payload |-> payload]
  /\ UNCHANGED <<arena, capacity, used, batches, handles, mapped, memory>>

\* A consumed or moved-from reservation, or buffers that do not match its
\* slots, are refused before any provider call.
BeginPublish(b, payload) ==
  /\ publish = Idle
  /\ batches[b].state = "open"
  /\ publish' = [at |-> "writable", batch |-> b, payload |-> payload]
  /\ UNCHANGED <<arena, capacity, used, batches, handles, mapped, memory>>

At(step) == publish.at = step

GoTo(step) == publish' = [publish EXCEPT !.at = step]

\* A provider call that fails may have changed some of the pages.
Protect(pages, right) ==
  perm' = [p \in Pages |-> IF p \in pages THEN right ELSE perm[p]]

MakeWritable ==
  /\ At("writable")
  /\ \/ Protect(Publication(publish.batch), "rw") /\ GoTo("copy")
     \/ \E some \in SUBSET Publication(publish.batch) : Protect(some, "rw") /\ GoTo("restore")
  /\ UNCHANGED <<arena, capacity, used, batches, handles, mapped, content, icache>>

Copy ==
  /\ At("copy")
  /\ content' = [p \in Pages |-> IF p \in SlotPages(publish.batch)
                                 THEN <<publish.batch, publish.payload>> ELSE content[p]]
  /\ GoTo("executable")
  /\ UNCHANGED <<arena, capacity, used, batches, handles, mapped, perm, icache>>

\* Faulty form: a failed make_executable is not noticed.
ExecutableUnchecked ==
  /\ At("executable")
  /\ \E some \in SUBSET Publication(publish.batch) : Protect(some, "rx") /\ GoTo("flush")
  /\ UNCHANGED <<arena, capacity, used, batches, handles, mapped, content, icache>>

MakeExecutable ==
  /\ At("executable")
  /\ \/ Protect(Publication(publish.batch), "rx") /\ GoTo("flush")
     \/ \E some \in SUBSET Publication(publish.batch) : Protect(some, "rx") /\ GoTo("again")
  /\ UNCHANGED <<arena, capacity, used, batches, handles, mapped, content, icache>>

\* make_executable after a failure: its result is ignored and the error of
\* the failed call returned; the reservation stays open.
Restore ==
  /\ At("restore") \/ At("again")
  /\ \E some \in SUBSET Publication(publish.batch) : Protect(some, "rx")
  /\ publish' = Idle
  /\ UNCHANGED <<arena, capacity, used, batches, handles, mapped, content, icache>>

\* Faulty form: a failed flush is not noticed.
FlushUnchecked ==
  /\ At("flush")
  /\ \E some \in SUBSET Publication(publish.batch) :
       icache' = [p \in Pages |-> IF p \in some THEN content[p] ELSE icache[p]]
  /\ GoTo("done")
  /\ UNCHANGED <<arena, capacity, used, batches, handles, mapped, perm, content>>

Flush ==
  /\ At("flush")
  /\ \/ /\ icache' = [p \in Pages |-> IF p \in Publication(publish.batch)
                                      THEN content[p] ELSE icache[p]]
        /\ GoTo("done")
     \/ /\ \E some \in SUBSET Publication(publish.batch) :
             icache' = [p \in Pages |-> IF p \in some THEN content[p] ELSE icache[p]]
        /\ publish' = Idle
  /\ UNCHANGED <<arena, capacity, used, batches, handles, mapped, perm, content>>

\* The handles of all slots are returned together and the reservation consumed.
Return ==
  /\ At("done")
  /\ LET b == publish.batch
     IN  /\ handles' = handles \cup {<<b, i>> : i \in DOMAIN batches[b].slots}
         /\ batches' = [batches EXCEPT ![b].state = "published"]
  /\ publish' = Idle
  /\ UNCHANGED <<arena, capacity, used, mapped, memory>>

-----------------------------------------------------------------------------
(* Destructors; a reservation cannot die inside its own publish.           *)

DropArena ==
  /\ arena = "live"
  /\ arena' = "gone"
  /\ mapped' = StillMapped("gone", batches, handles)
  /\ UNCHANGED <<capacity, used, batches, handles, memory, publish>>

Abandon(b) ==
  /\ batches[b].state = "open"
  /\ publish.batch # b
  /\ batches' = [batches EXCEPT ![b].state = "abandoned"]
  /\ mapped' = StillMapped(arena, batches', handles)
  /\ UNCHANGED <<arena, capacity, used, handles, memory, publish>>

DropHandle(h) ==
  /\ handles' = handles \ {h}
  /\ mapped' = StillMapped(arena, batches, handles')
  /\ UNCHANGED <<arena, capacity, used, batches, memory, publish>>

Next ==
  \/ \E request \in Capacities : Create(request)
  \/ \E sizes \in Requests : ReserveInArena(sizes) \/ ReserveMapping(sizes)
  \/ \E b \in DOMAIN batches, payload \in Payloads : BeginPublish(b, payload)
  \/ MakeWritable
  \/ Copy
  \/ MakeExecutable
  \/ Restore
  \/ Flush
  \/ Return
  \/ DropArena
  \/ \E b \in DOMAIN batches : Abandon(b)
  \/ \E h \in handles : DropHandle(h)

Spec == Init /\ [][Next]_vars
-----------------------------------------------------------------------------
(* Properties.                                                             *)

\* No two reservations, open or not, of an arena or of a mapping of their own,
\* pass a common page to the provider: CodeArena::reserve hands out whole pages
\* once and never reclaims them.
ReservationsDisjoint ==
  \A b, c \in DOMAIN batches : b # c => Publication(b) \cap Publication(c) = {}

\* The memmove of CodeReservation::publish only ever writes pages that are
\* mapped and that the preceding make_writable opened.
CopyIsAllowed ==
  At("copy") => /\ batches[publish.batch].region \in mapped
                /\ \A p \in SlotPages(publish.batch) : perm[p] = "rw"

\* Whatever publications, failures, retries, abandoned reservations and
\* destructions came after it, the code behind a live ExecutableCode is mapped,
\* executable, and fetched by the processor as one publication wrote it.
PublishedIntact ==
  \A h \in handles :
    /\ batches[h[1]].region \in mapped
    /\ \A p \in Publication(h[1]) : perm[p] = "rx"
    /\ \E payload \in Payloads :
         \A p \in SlotPages(h[1]) : content[p] = <<h[1], payload>> /\ icache[p] = content[p]

\* A step never changes a page of a published batch, not even for the duration
\* of another batch's publication ("later publication never requests an earlier
\* batch's pages or rewrites its bytes").
PublishedStable ==
  [][\A b \in DOMAIN batches : batches[b].state = "published" =>
       \A p \in Publication(b) :
         perm'[p] = perm[p] /\ content'[p] = content[p] /\ icache'[p] = icache[p]]_vars

\* A region is released exactly when the arena, the open reservations and the
\* handles that hold it are gone: not while one is alive, and not later.
RegionHeld ==
  \A r \in Regions : r \in mapped <=> Held(r, arena, batches, handles)

-----------------------------------------------------------------------------
(* The inductive invariant behind the safety properties.                   *)

\* Batches of the arena follow one another below used_, in whole pages; a batch
\* of its own mapping has that mapping's region; slots stay inside the batch.
BatchLayout ==
  /\ used % Page = 0
  /\ capacity % Page = 0
  /\ \A b \in DOMAIN batches :
       LET r == batches[b]
       IN  /\ r.start % Page = 0
           /\ r.length % Page = 0
           /\ r.start + r.length <= SizeMax
           /\ 1 \in DOMAIN r.slots
           /\ \A i \in DOMAIN r.slots :
                r.start <= r.slots[i].offset /\ r.slots[i].offset + r.slots[i].size <= r.start + r.length
           /\ IF r.region = 0 THEN r.start + r.length <= used ELSE r.region = b
  /\ \A b, c \in DOMAIN batches :
       (b < c /\ batches[b].region = 0 /\ batches[c].region = 0)
         => batches[b].start + batches[b].length <= batches[c].start

\* How far the publication in progress has brought the pages of its batch.
PublishProgress ==
  publish # Idle =>
    LET b == publish.batch
        open == \A p \in Publication(b) : perm[p] = "rw"
        closed == \A p \in Publication(b) : perm[p] = "rx"
        copied == \A p \in SlotPages(b) : content[p] = <<b, publish.payload>>
        fetchable == \A p \in SlotPages(b) : icache[p] = content[p]
    IN  /\ b \in DOMAIN batches
        /\ batches[b].state = "open"
        /\ At("copy") => open
        /\ publish.at \in {"executable", "again"} => copied
        /\ At("flush") => copied /\ closed
        /\ At("done") => copied /\ closed /\ fetchable

\* Consumed reservations are executable, coherent and hold one payload.
PublishedBatches ==
  \A b \in DOMAIN batches : batches[b].state = "published" =>
    /\ \A p \in Publication(b) : perm[p] = "rx"
    /\ \E payload \in Payloads :
         \A p \in SlotPages(b) : content[p] = <<b, payload>> /\ icache[p] = content[p]

HandlesOfPublished ==
  \A h \in handles : h[1] \in DOMAIN batches /\ batches[h[1]].state = "published"

\* The region of a future private mapping is not in use, the arena's is unused
\* before the arena is created.
FreshRegions ==
  /\ \A r \in mapped : r <= Len(batches)
  /\ arena = "none" => used = 0

IInv ==
  /\ TypeOK
  /\ BatchLayout
  /\ PublishProgress
  /\ PublishedBatches
  /\ HandlesOfPublished
  /\ FreshRegions
  /\ RegionHeld

-----------------------------------------------------------------------------
\* The abstract view: a batch is published when its reservation is consumed and
\* some handle is left; what is fetched from it is what its pages give the
\* processor now.
AbstractStatus(b) ==
  IF b \notin DOMAIN batches THEN "free"
  ELSE IF batches[b].state = "open" THEN "reserved"
  ELSE IF \E h \in handles : h[1] = b THEN "published"
  ELSE "retired"

AbstractFetched(b) ==
  IF AbstractStatus(b) = "published" THEN {icache[p] : p \in SlotPages(b)} ELSE {}

Promise == INSTANCE CodeBatches WITH
  Batches <- Batches,
  Payloads <- Written,
  status <- [b \in Batches |-> AbstractStatus(b)],
  fetched <- [b \in Batches |-> AbstractFetched(b)]

\* The provider calls of CodeReservation::publish, with their failures, implement
\* the atomic publication of CodeBatches.
KeepsPromise == Promise!Spec
=============================================================================
