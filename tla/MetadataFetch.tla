--------------------------- MODULE MetadataFetch ---------------------------
(***************************************************************************)
(* How the info dictionary of a magnet link is fetched                     *)
(* (src/net/metadata.rs and src/core/metadata_assembler.rs): several peers *)
(* share one assembler, claim its pieces, fill them and give them back.    *)
(*                                                                         *)
(* A piece of metadata is good or bad; the hash tells only whether all of  *)
(* them are good.  Steady peers are honest and stay; the others may stay   *)
(* silent, reject, leave, lie, or send pieces nobody asked for.  Left out: *)
(* requests of the peer (always rejected) and a second extended handshake. *)
(*                                                                         *)
(* `Behaviours` lists what else may happen:                                *)
(*   "deadline"  the fetch takes longer than its timeout;                  *)
(*   "size"      a peer announces a wrong metadata size;                   *)
(*   "send"      sending a request fails.                                  *)
(***************************************************************************)
EXTENDS Integers, Sequences, FiniteSetsExt

CONSTANTS
    Addr,
    Steady,
    NumParts,     \* pieces of the metadata
    MaxParallel,  \* MAX_PARALLEL_PEERS (8)
    Behaviours

ASSUME PeersAssumption == Steady \subseteq Addr
ASSUME FetchAssumption == NumParts \in Nat \ {0} /\ MaxParallel \in Nat \ {0}

VARIABLES
    fetch,      \* "off", "on", "done", "failed" or "aborted"
    helpers,    \* tasks that look for peers
    seen,       \* addresses heard of
    queue,      \* addresses to try
    peer,       \* running peer tasks -> "greeting" or "ready"
    claimed,    \* running peer tasks -> the piece they claimed, or NoPart
    size,       \* the metadata size of the assembler
    received,   \* received pieces -> "good" or "bad"
    in_flight,
    result

fetchVars == <<fetch, helpers, seen, queue, peer, claimed, size, received, in_flight, result>>

Part == 1..NumParts
NoPart == 0
Running == DOMAIN peer
Nothing == <<>>  \* the function with the empty domain
Without(f, a) == [x \in DOMAIN f \ {a} |-> f[x]]
With(f, a, v) == [x \in DOMAIN f \cup {a} |-> IF x = a THEN v ELSE f[x]]

FetchInit ==
    /\ fetch = "off" /\ helpers = {}
    /\ seen = {} /\ queue = <<>>
    /\ peer = Nothing /\ claimed = Nothing
    /\ size = "unknown" /\ received = Nothing /\ in_flight = {} /\ result = FALSE

StartFetch ==
    /\ fetch' = "on" /\ helpers' = {"tracker", "dht"}
    /\ UNCHANGED <<seen, queue, peer, claimed, size, received, in_flight, result>>

\* A tracker or the DHT names a peer; an address is tried once.
Found(a) ==
    /\ fetch = "on" /\ a \notin seen
    /\ seen' = seen \cup {a} /\ queue' = Append(queue, a)
    /\ UNCHANGED <<fetch, helpers, peer, claimed, size, received, in_flight, result>>

Spawn ==
    /\ fetch = "on" /\ ~result
    /\ queue # <<>> /\ Cardinality(Running) < MaxParallel
    /\ queue' = Tail(queue)
    /\ peer' = With(peer, Head(queue), "greeting")
    /\ claimed' = With(claimed, Head(queue), NoPart)
    /\ UNCHANGED <<fetch, helpers, seen, size, received, in_flight, result>>

------------------------------------------------------------------------------
\* Mutant of EndPeer: what the peer claimed is not released.
EndPeerClaiming(a) ==
    /\ peer' = Without(peer, a) /\ claimed' = Without(claimed, a)
    /\ UNCHANGED in_flight

\* fetch_from_peer after peer_loop returned: the claim is released.
EndPeer(a) ==
    /\ peer' = Without(peer, a) /\ claimed' = Without(claimed, a)
    /\ in_flight' = in_flight \ {claimed[a]}

\* The extended handshake: the first metadata size counts, who disagrees is dropped.
ExtHandshake(a, s) ==
    /\ a \in Running /\ peer[a] = "greeting" /\ ~result
    /\ IF size \in {"unknown", s}
       THEN /\ size' = s /\ peer' = [peer EXCEPT ![a] = "ready"]
            /\ UNCHANGED <<claimed, in_flight>>
       ELSE EndPeer(a) /\ UNCHANGED size
    /\ UNCHANGED <<fetch, helpers, seen, queue, received, result>>

\* claim_piece and the request for it.  When the request cannot be sent, peer_loop
\* returns before it notes what it claimed.
Unclaimed == Part \ (DOMAIN received \cup in_flight)
Claim(a) ==
    /\ a \in Running /\ peer[a] = "ready" /\ claimed[a] = NoPart /\ ~result
    /\ Unclaimed # {}
    /\ in_flight' = in_flight \cup {Min(Unclaimed)}
    /\ \E sent \in IF "send" \in Behaviours THEN BOOLEAN ELSE {TRUE} :
        /\ peer' = IF sent THEN peer ELSE Without(peer, a)
        /\ claimed' = IF sent THEN [claimed EXCEPT ![a] = Min(Unclaimed)] ELSE Without(claimed, a)
    /\ UNCHANGED <<fetch, helpers, seen, queue, size, received, result>>

\* Mutant of Assemble: metadata with a wrong hash is kept.
AssembleOnce(parts, flying) ==
    /\ received' = parts /\ in_flight' = flying
    /\ result' = (DOMAIN parts = Part /\ size = "right" /\ \A p \in Part : parts[p] = "good")

\* Shared::add_piece once the piece is stored: the last one completes the metadata,
\* which is thrown away when the hash does not match.
Assemble(parts, flying) ==
    LET complete == DOMAIN parts = Part
        matches == size = "right" /\ \A p \in Part : parts[p] = "good"
    IN /\ result' = (complete /\ matches)
       /\ received' = IF complete /\ ~matches THEN Nothing ELSE parts
       /\ in_flight' = IF complete /\ ~matches THEN {} ELSE flying

\* A piece arrives, good or bad, asked for or not; steady peers send what they were
\* asked for.
Data(a, p, quality) ==
    /\ a \in Running /\ size # "unknown" /\ ~result
    /\ a \in Steady => quality = "good" /\ p = claimed[a]
    /\ Assemble(With(received, p, quality), in_flight \ {p})
    /\ claimed' = [claimed EXCEPT ![a] = IF @ = p THEN NoPart ELSE @]
    /\ UNCHANGED <<fetch, helpers, seen, queue, peer, size>>

\* A peer is too slow with its handshake or with the piece it was asked for; this is
\* noticed only when it has sent no message at all for 500 ms.
TimesOut(a) ==
    /\ a \in Running \ Steady /\ ~result
    /\ peer[a] = "greeting" \/ claimed[a] # NoPart
    /\ EndPeer(a)
    /\ UNCHANGED <<fetch, helpers, seen, queue, size, received, result>>

\* It cannot be reached, rejects a request, sends another malformed message or leaves.
PeerFails(a) ==
    /\ a \in Running \ Steady /\ ~result
    /\ EndPeer(a)
    /\ UNCHANGED <<fetch, helpers, seen, queue, size, received, result>>

\* It sends a piece of the wrong length: the claim on that piece is gone, whoever made
\* it, before the length is looked at.
Malformed(a, p) ==
    /\ a \in Running \ Steady /\ ~result
    /\ peer' = Without(peer, a) /\ claimed' = Without(claimed, a)
    /\ in_flight' = in_flight \ {p, claimed[a]}
    /\ UNCHANGED <<fetch, helpers, seen, queue, size, received, result>>

------------------------------------------------------------------------------
\* The fetch ends and its shared state with it; `rest` are helpers still running.
EndFetch(outcome, rest) ==
    /\ fetch' = outcome /\ helpers' = rest
    /\ seen' = {} /\ queue' = <<>> /\ peer' = Nothing /\ claimed' = Nothing
    /\ size' = "unknown" /\ received' = Nothing /\ in_flight' = {}
    /\ UNCHANGED result

FetchEnds ==
    /\ fetch = "on"
    /\ result \/ "deadline" \in Behaviours
    /\ EndFetch(IF result THEN "done" ELSE "failed", {})

\* Aborting the task of fetch_metadata drops the set of peer tasks, which aborts them,
\* and the handles of the helpers, which does not.
AbortFetch == fetch = "on" /\ EndFetch("aborted", helpers)

Sizes(a) == IF "size" \in Behaviours /\ a \notin Steady THEN {"right", "wrong"} ELSE {"right"}

FetchStep ==
    \/ \E a \in Addr :
        \/ Found(a) \/ Claim(a) \/ TimesOut(a) \/ PeerFails(a)
        \/ \E s \in Sizes(a) : ExtHandshake(a, s)
        \/ \E p \in Part : Malformed(a, p) \/ \E quality \in {"good", "bad"} : Data(a, p, quality)
    \/ Spawn \/ FetchEnds

\* Tasks go on, and steady peers are found and answer.
FetchFairness ==
    /\ WF_fetchVars(Spawn) /\ WF_fetchVars(FetchEnds)
    /\ \A a \in Addr : WF_fetchVars(Claim(a))
    /\ \A a \in Steady :
        /\ WF_fetchVars(Found(a)) /\ WF_fetchVars(ExtHandshake(a, "right"))
        /\ \A p \in Part : WF_fetchVars(Data(a, p, "good"))

\* What the other peers may be trusted with: nobody who owes an answer keeps on sending
\* other messages, and the bad pieces end (a liar is not banned).
PeersFallSilent == \A a \in Addr : WF_fetchVars(TimesOut(a))
LiesEnd == <>[][\A a \in Addr, p \in Part : ~Data(a, p, "bad")]_fetchVars

------------------------------------------------------------------------------
\* A piece counts as requested only while a running peer has claimed it, whoever left,
\* lied or answered for somebody else; otherwise nobody would ever ask for it again.
ClaimsOwned == \A p \in in_flight : \E a \in Running : claimed[a] = p
==============================================================================
