----------------------------- MODULE Forwarding -----------------------------
(***************************************************************************)
(* Whom the proxy takes for the client, and what it tells the backend      *)
(* (ClientIP and setForwarded in internal/proxy/proxy.go).  An inbound     *)
(* X-Forwarded-For is the sequence of its hops, over all header lines and  *)
(* split at the commas; a hop that does not parse is Garbled.  The peer is *)
(* an address: net/http's RemoteAddr is one.                               *)
(***************************************************************************)
EXTENDS Naturals, Sequences, SequencesExt

CONSTANTS
  Trusted,    \* the addresses in proxy.trusted-proxies
  Garbled,    \* a hop netip.ParseAddr rejects
  NoProto     \* no X-Forwarded-Proto header

ASSUME ForwardingAssumption == Garbled \notin Trusted

\* Mutant: a malformed hop is skipped.
HopSkipped(hop, walk) ==
  IF walk.done \/ hop = Garbled THEN walk
  ELSE [client |-> hop, done |-> hop \notin Trusted]

\* One hop of the walk, right to left: it ends at a malformed hop and at the
\* first address outside the trusted set.
Hop(hop, walk) ==
  IF walk.done THEN walk
  ELSE IF hop = Garbled THEN [walk EXCEPT !.done = TRUE]
  ELSE [client |-> hop, done |-> hop \notin Trusted]

ClientIP(peer, hops) ==
  IF peer \notin Trusted THEN peer
  ELSE FoldRight(Hop, hops, [client |-> peer, done |-> FALSE]).client

\* Mutant: Rewrite strips the inbound chain and nothing restores it.
NoHops(peer, hops) == << >>

\* req.Out.Header["X-Forwarded-For"] = xff, from a trusted peer only
KeptHops(peer, hops) == IF peer \in Trusted THEN hops ELSE << >>

\* The listeners speak plain HTTP.
KeptProto(peer, proto) == IF peer \in Trusted /\ proto # NoProto THEN proto ELSE "http"

\* SetXForwarded appends the peer to what was kept.
SetForwarded(peer, hops, proto) ==
  [hops |-> Append(KeptHops(peer, hops), peer), proto |-> KeptProto(peer, proto)]

=============================================================================
