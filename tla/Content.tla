------------------------------ MODULE Content ------------------------------
(***************************************************************************)
(* What the gateway computes without I/O: a request host and path to a     *)
(* target and a resource key (host.rs, content.rs), the windows of a node  *)
(* to a ciphertext (node.rs), and the verify-then-decrypt gate over it     *)
(* (content.rs).                                                           *)
(*                                                                         *)
(* Cryptography is symbolic.  A resource is a record of Docs: the store,   *)
(* merkle root and key it lives under and the chunks it was sealed into.   *)
(* A merkle proof folds exactly when its leaf is a ciphertext its root     *)
(* commits to; a chunk opens exactly under the store and key it was sealed *)
(* for.  Docs also holds what nobody anchored: a public store's key can be *)
(* derived by anyone, so a misbehaving node can build a tree of its own.   *)
(***************************************************************************)
EXTENDS Integers, Sequences, SequencesExt

CONSTANTS
  Id,           \* the 32-byte ids labels decode to (stores and roots)
  Byte,         \* the bytes of ciphertexts and plaintexts
  Docs,         \* every resource of every merkle tree, see DocsAssumption
  DotSegments,  \* the path segments that contain a dot
  UsizeMax,     \* the largest usize
  None          \* an absent field of a JSON answer

\* A resource: where it lives, its ciphertext, its plaintext, and the sealed
\* chunks the first is the concatenation of.
ASSUME DocsAssumption ==
  \A d \in Docs :
    /\ d \in [store : Id, root : Id, key : Seq(STRING), ct : Seq(Byte), pt : Seq(Byte),
              chunks : Seq([ct : Seq(Byte), pt : Seq(Byte)])]
    /\ d.ct = FlattenSeq([i \in DOMAIN d.chunks |-> d.chunks[i].ct])
    /\ d.pt = FlattenSeq([i \in DOMAIN d.chunks |-> d.chunks[i].pt])
ASSUME NoneAssumption == None \notin Nat /\ None \notin Id

(***************************************************************************)
(* Host -> HostTarget.  A host is the labels before the tld (<<>> for the  *)
(* bare tld), whether it is under the tld at all, and how it is spelled:   *)
(* trailing dots and a :port suffix.  A label is an id, "" or undecodable. *)
(***************************************************************************)
NotDig == [kind |-> "Err", store |-> None, root |-> None]
Latest(s) == [kind |-> "Latest", store |-> s, root |-> None]
Pinned(r, s) == [kind |-> "Pinned", store |-> s, root |-> r]

HostTarget == {NotDig} \cup {Latest(s) : s \in Id} \cup {Pinned(r, s) : r, s \in Id}

\* A label of 52 base32 characters, in either case, is an id; nothing else is.
label_to_store_hex(l) == IF l \in Id THEN l ELSE None

\* One trailing dot is stripped, and only at the very end: before a port it stays.
parse_dig_host(h) ==
  IF \/ ~h.tld
     \/ h.dots > (IF h.port THEN 0 ELSE 1)
     \/ \E i \in DOMAIN h.labels : label_to_store_hex(h.labels[i]) = None
     \/ Len(h.labels) \notin {1, 2}
  THEN NotDig
  ELSE IF Len(h.labels) = 1 THEN Latest(label_to_store_hex(h.labels[1]))
       ELSE Pinned(label_to_store_hex(h.labels[1]), label_to_store_hex(h.labels[2]))

\* The open-proxy guard: every trailing dot is trimmed, labels are not looked at.
host_is_under_tld(h) == h.tld /\ (h.port => h.dots = 0)

(***************************************************************************)
(* Path -> resource key.  A path is its segments after the leading slash.  *)
(***************************************************************************)
IndexKey == <<"index.html">>
InvalidPath == <<>>

resource_key_for_path(p) ==
  IF p = <<"">> THEN IndexKey
  ELSE IF \E i \in DOMAIN p : p[i] \in {".", "..", "back\\slash"} THEN InvalidPath
  ELSE p

is_extensionless(p) == p[Len(p)] \notin DotSegments

control_endpoint_for(p) ==
  IF p[1] # ".dig" THEN "none"
  ELSE IF p = <<".dig", "health">> THEN "Health"
  ELSE IF p = <<".dig", "proxy.pac">> THEN "ProxyPac"
  ELSE IF p = <<".dig", "resolve-probe">> THEN "ResolveProbe"
  ELSE "Unknown"

(***************************************************************************)
(* The windows of dig.getContent -> a ciphertext.                          *)
(***************************************************************************)
Malformed == [ok |-> FALSE, ciphertext |-> <<>>, proof |-> None, lens |-> <<>>]

assemble_windows(ws) ==
  LET first == ws[1]
  IN  IF /\ ws # <<>>
         /\ first.proof # None /\ first.lens # None /\ first.root # None
         /\ \A i \in DOMAIN ws : /\ ws[i].bytes # None
                                 /\ ws[i].complete <=> i = Len(ws)
      THEN [ok |-> TRUE,
            ciphertext |-> FlattenSeq([i \in DOMAIN ws |-> ws[i].bytes]),
            proof |-> first.proof, lens |-> first.lens]
      ELSE Malformed

(***************************************************************************)
(* The symbolic cryptography: digstore-core's merkle tree and AES-GCM-SIV. *)
(***************************************************************************)
ChunkLens(d) == [i \in DOMAIN d.chunks |-> Len(d.chunks[i].ct)]

\* MerkleProof::verify: the leaf is under the root the proof declares.
Folds(proof) == \E d \in Docs : d.root = proof.root /\ d.ct = proof.leaf

\* The chunks sealed under the key of (store, key); it does not depend on the root.
SealedFor(store, key) ==
  UNION {{d.chunks[i] : i \in DOMAIN d.chunks} :
           d \in {e \in Docs : e.store = store /\ e.key = key}}

\* decrypt_chunk: the tag opens only a chunk sealed under this very key.
Opens(store, key, ct) == \E ch \in SealedFor(store, key) : ch.ct = ct
decrypt_chunk(store, key, ct) ==
  (CHOOSE ch \in SealedFor(store, key) : ch.ct = ct).pt

(***************************************************************************)
(* verify_and_decrypt.                                                     *)
(***************************************************************************)
Plan(ct, lens) == IF lens = <<>> THEN <<Len(ct)>> ELSE lens

\* Where chunk i of a plan ends; chunk i starts where chunk i - 1 ends.
ChunkEnds(plan) ==
  LET end[i \in 0 .. Len(plan)] == IF i = 0 THEN 0 ELSE end[i - 1] + plan[i]
  IN  end

Slices(ct, plan) ==
  LET end == ChunkEnds(plan)
  IN  [i \in DOMAIN plan |-> SubSeq(ct, end[i - 1] + 1, end[i])]

\* Every chunk length sums up without overflow, to the ciphertext's length.
PlanFits(ct, plan) ==
  LET total == ChunkEnds(plan)[Len(plan)]
  IN  total <= UsizeMax /\ total = Len(ct)

Failed(e) == [err |-> e, pt |-> <<>>]

\* Variant: the proof may fold to any root, not only the trusted one.
verify_any_root(store, key, ct, proof, trusted, lens) ==
  LET plan == Plan(ct, lens)
      parts == Slices(ct, plan)
  IN  IF ~proof.decodes THEN Failed("BadProof")
      ELSE IF ct # proof.leaf THEN Failed("ProofLeafMismatch")
      ELSE IF ~Folds(proof) THEN Failed("ProofFoldMismatch")
      ELSE IF ~PlanFits(ct, plan) THEN Failed("ChunkLenMismatch")
      ELSE IF \E i \in DOMAIN parts : ~Opens(store, key, parts[i]) THEN Failed("Decrypt")
      ELSE [err |-> "none",
            pt |-> FlattenSeq([i \in DOMAIN parts |->
                                 decrypt_chunk(store, key, parts[i])])]

verify_and_decrypt(store, key, ct, proof, trusted, lens) ==
  LET plan == Plan(ct, lens)
      parts == Slices(ct, plan)
  IN  IF ~proof.decodes THEN Failed("BadProof")
      ELSE IF ct # proof.leaf THEN Failed("ProofLeafMismatch")
      ELSE IF ~Folds(proof) THEN Failed("ProofFoldMismatch")
      ELSE IF proof.root # trusted THEN Failed("RootMismatch")
      ELSE IF ~PlanFits(ct, plan) THEN Failed("ChunkLenMismatch")
      ELSE IF \E i \in DOMAIN parts : ~Opens(store, key, parts[i]) THEN Failed("Decrypt")
      ELSE [err |-> "none",
            pt |-> FlattenSeq([i \in DOMAIN parts |->
                                 decrypt_chunk(store, key, parts[i])])]
=============================================================================
