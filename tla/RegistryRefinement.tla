------------------------- MODULE RegistryRefinement -------------------------
(***************************************************************************)
(* Registry implements AbstractRegistry.  A metric joins the log of its    *)
(* shard with the release store of published_len; a thread knows it when   *)
(* that store is in the thread's view.  A traversal by `len` is no visit.  *)
(***************************************************************************)
EXTENDS Registry, Sequences

(* The place of a slot in its shard's log, and the slot of a place. *)
Place(x) == <<x[1], x[2] * ChunkSize + x[3] + 1>>
SlotAt(s, i) == <<s, (i - 1) \div ChunkSize, (i - 1) % ChunkSize>>

PlacesOf(X) == {Place(x) : x \in X}

Log == [s \in Shards |-> [i \in 1..len[s] |-> entries[SlotAt(s, i)].profile]]

Walk(t) ==
  CASE cursor[t].op = "visit" /\ pc[t] \in Walking  -> "running"
    [] cursor[t].op = "visit" /\ pc[t] = "walked"   -> "done"
    [] OTHER                                        -> "none"

OfVisit(t, P) == IF Walk(t) = "none" THEN {} ELSE P

(* The state of AbstractRegistry that a state of the registry stands for. *)
KeyOf == [r \in Requests |-> LookupKey(r)]
Policies == [r \in Requests |-> PolicyOf(r)]
HandlePlaces == {[h EXCEPT !.item = Place(@)] : h \in handles}
Knows == [t \in Threads |-> PlacesOf(KnownSlots(view[t]))]
Walks == [t \in Threads |-> Walk(t)]
Musts == [t \in Threads |-> OfVisit(t, PlacesOf(known[t]))]
Seens == [t \in Threads |-> OfVisit(t, PlacesOf(Visited(t)))]

Abstract == INSTANCE AbstractRegistry WITH
  Key <- KeyOf, Policy <- Policies, log <- Log, handles <- HandlePlaces, knows <- Knows,
  walk <- Walks, must <- Musts, seen <- Seens

(* The whole promise of the registry at once, for registrations, handles    *)
(* and visits that interleave: no key twice in a shard's log, no entry ever *)
(* lost or changed, no handle on another key's metric or on one its thread  *)
(* does not know, no visit that is not a prefix or misses what its thread   *)
(* knew (the comments at registry.rs:24 and :324, lib.rs:165).              *)
ImplementsAbstract == Abstract!Spec

============================================================================
