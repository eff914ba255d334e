--------------------------- MODULE TlsConnections ---------------------------
(***************************************************************************)
(* A browser that connects again and again.  Its TLS stack draws new       *)
(* GREASE values and a new order of the extensions for each connection,    *)
(* and offers a pre-shared key when it resumes a session.                  *)
(***************************************************************************)
EXTENDS TlsFingerprints, Functions

CONSTANTS
    Stacks,           \* the hellos of the TLS stacks there are
    DrawnGrease       \* the GREASE values they draw from

ASSUME DrawnGreaseAssumption == DrawnGrease \subseteq greaseValues

ASSUME StacksAssumption == Stacks \subseteq Hellos

VARIABLES
    stack,            \* the stack of this browser
    hello,            \* what its latest connection began with
    seen              \* the fingerprints of its full and resumed handshakes

vars == <<stack, hello, seen>>

Shuffled(s, order) == [i \in DOMAIN s |-> s[order[i]]]

Drawn(s, draw) ==
    [i \in DOMAIN s |-> IF s[i] \in DrawnGrease THEN draw[s[i]] ELSE s[i]]

\* One draw serves all fields: a GREASE group has a GREASE key share.
ClientHello(order, draw) ==
    [stack EXCEPT !.ciphers = Drawn(@, draw),
                  !.extensions = Drawn(Shuffled(@, order), draw),
                  !.groups = Drawn(@, draw),
                  !.versions = Drawn(@, draw),
                  !.keyShares = Drawn(@, draw)]

Init ==
    /\ stack \in Stacks
    /\ hello = stack
    /\ seen = [full |-> {Fingerprints(stack)}, resumed |-> {}]

Connect(order, draw) ==
    /\ hello' = ClientHello(order, draw)
    /\ seen' = [seen EXCEPT !.full = @ \cup {Fingerprints(hello')}]
    /\ UNCHANGED stack

\* pre_shared_key is the last extension (RFC 8446).
Resumed(h) == [h EXCEPT !.extensions = Append(@, PreSharedKey)]

Resume(order, draw) ==
    /\ hello' = Resumed(ClientHello(order, draw))
    /\ seen' = [seen EXCEPT !.resumed = @ \cup {Fingerprints(hello')}]
    /\ UNCHANGED stack

Next ==
    \E order \in Bijection(DOMAIN stack.extensions, DOMAIN stack.extensions),
       draw \in Bijection(DrawnGrease, DrawnGrease) :
        Connect(order, draw) \/ Resume(order, draw)

Spec == Init /\ [][Next]_vars

-----------------------------------------------------------------------------
(* What the three fingerprints together do not tell apart.                 *)

\* Two drawings of one code point.
Alike(a, b) == a = b \/ (a \in greaseValues /\ b \in greaseValues)

\* Lists that differ in the values of GREASE only ...
SameOrder(s, t) == DOMAIN s = DOMAIN t /\ \A i \in DOMAIN s : Alike(s[i], t[i])

\* ... and lists that differ in their order, too.
Paired(s, t) ==
    \E p \in Bijection(DOMAIN s, DOMAIN t) : \A i \in DOMAIN s : Alike(s[i], t[p[i]])

\* The order of the extensions and of the point formats, the values of GREASE,
\* and how the versions of HTTP are spelled after the first protocol.
SameButDrawn(h, k) ==
    /\ h.version = k.version /\ h.sigAlgs = k.sigAlgs /\ h.pskModes = k.pskModes
    /\ \A field \in {"ciphers", "groups", "versions", "compAlgs", "keyShares"} :
          SameOrder(h[field], k[field])
    /\ Paired(h.extensions, k.extensions) /\ Paired(h.points, k.points)
    /\ formatALPN(h.alpn) = formatALPN(k.alpn) /\ FirstALPN(h) = FirstALPN(k)

\* What the stacks send, with its fingerprints.
Sent == Stacks \cup {Resumed(s) : s \in Stacks}

Shown == {[sent |-> h, prints |-> Fingerprints(h)] : h \in Sent}

-----------------------------------------------------------------------------
(* The type invariant: what the fingerprints consist of; JA4 has two       *)
(* digits for each of its counts.                                          *)
TypeOK ==
    /\ stack \in Stacks
    /\ hello.extensions \in Seq(Uint16)
    /\ \A fp \in seen.full \cup seen.resumed :
          /\ fp.ja4.a[3] \in 0 .. 99 /\ fp.ja4.a[4] \in 0 .. 99
          /\ \A i \in DOMAIN fp.ja4.b : fp.ja4.b[i] \in Uint16 \ greaseValues

(* However a browser shuffles its extensions and draws GREASE, its full    *)
(* handshakes have one fingerprint of each kind, and so have its resumed   *)
(* ones: a returning user is not taken for a new device.                   *)
OneFingerprintPerBrowser ==
    Cardinality(seen.full) <= 1 /\ Cardinality(seen.resumed) <= 1

(* Another stack shows the fingerprints of this browser, in a full or in a *)
(* resumed handshake, only where it sends the same hello but for what is   *)
(* drawn anew: whatever sorting and dropping GREASE hide from one of the   *)
(* fingerprints, another one tells (ja3.go, ja4.go, peetprint.go).  The    *)
(* fingerprints are compared as lists of values: that the names of two     *)
(* protocols, joined with "-", may read as those of three is left out.     *)
StacksAreTold ==
    \A other \in Shown :
        /\ other.prints \in seen.full
              => other.sent = stack \/ SameButDrawn(other.sent, stack)
        /\ other.prints \in seen.resumed
              => other.sent = Resumed(stack) \/ SameButDrawn(other.sent, Resumed(stack))

(* A resumed handshake shows its key in all three fingerprints, and the    *)
(* rest of JA4 as before: the same ciphers, version, name and protocol.    *)
ResumptionShows ==
    \A full \in seen.full, resumed \in seen.resumed :
        /\ full.ja3 # resumed.ja3 /\ full.peetPrint # resumed.peetPrint
        /\ full.ja4 # resumed.ja4 /\ full.ja4.b = resumed.ja4.b
        /\ \A i \in {1, 2, 3, 5} : full.ja4.a[i] = resumed.ja4.a[i]
=============================================================================
