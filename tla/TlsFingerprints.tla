--------------------------- MODULE TlsFingerprints ---------------------------
(***************************************************************************)
(* From a ClientHello to the sorted JA3, the JA4 and the PeetPrint of      *)
(* pkg/sentinel/ja3, ja4 and peetprint.                                    *)
(*                                                                         *)
(* A hello is a record: version is the legacy version, ciphers and         *)
(* extensions are the lists of code points in the order of the wire, and   *)
(* the other fields are the contents of the extensions that the code       *)
(* reads, << >> where the extension is absent.  Parsing the record is left *)
(* to tlsx and utls, outside of this repository.                           *)
(*                                                                         *)
(* A fingerprint is the tuple of the values that the code prints, in the   *)
(* order in which it prints them.  Digests are represented by what they    *)
(* digest.                                                                 *)
(***************************************************************************)
EXTENDS Integers, Sequences, FiniteSets

\* The extensions the code treats by name.
SNI == 0
ALPN == 16
Padding == 21
PreSharedKey == 41
SupportedVersions == 43

Uint16 == 0 .. 65535
Byte == 0 .. 255

\* What tlsx and utls make of a ClientHello.
Hellos ==
    [version : Uint16, ciphers : Seq(Uint16), extensions : Seq(Uint16),
     groups : Seq(Uint16), points : Seq(Byte), versions : Seq(Uint16),
     sigAlgs : Seq(Uint16), alpn : Seq(Seq(Byte)), pskModes : Seq(Byte),
     compAlgs : Seq(Uint16), keyShares : Seq(Uint16)]

-----------------------------------------------------------------------------
(* The loops and sorts of the three packages, as what they return.         *)

\* The list without the elements of S.
Without(s, S) ==
    LET kept[i \in 0 .. Len(s)] ==
            IF i = 0 THEN << >>
            ELSE IF s[i] \in S THEN kept[i - 1] ELSE Append(kept[i - 1], s[i])
    IN  kept[Len(s)]

\* At place k is the value that fewer than k elements are below, and k or more not above.
Sorted(s) ==
    [k \in DOMAIN s |-> CHOOSE v \in {s[i] : i \in DOMAIN s} :
        /\ Cardinality({i \in DOMAIN s : s[i] < v}) < k
        /\ k <= Cardinality({i \in DOMAIN s : s[i] <= v})]

-----------------------------------------------------------------------------
(* The two tests for GREASE.                                               *)

\* The table of ja3.go and peetprint.go: 0x0a0a, 0x1a1a, ... 0xfafa.
greaseValues == {2570 + 4112 * n : n \in 0 .. 15}

\* The test of ja4: both bytes alike, and the lowest nibble 0xa.
isGREASEUint16(v) == v \div 256 = v % 256 /\ v % 16 = 10

ContainsExtension(hello, id) ==
    \E i \in DOMAIN hello.extensions : hello.extensions[i] = id

-----------------------------------------------------------------------------
(* JA3: Bare, and the sorted variant that is sent on.                      *)

\* MUTANT of NoGrease: GREASE is left in the list.
NoGreaseKeeps(s) == s

NoGrease(s) == Without(s, greaseValues)

Bare(hello) ==
    << <<hello.version>>, NoGrease(hello.ciphers), NoGrease(hello.extensions),
       NoGrease(hello.groups), hello.points >>

\* Every field but the version.
SortedBare(hello) ==
    LET bare == Bare(hello)
    IN  [i \in DOMAIN bare |-> IF i = 1 THEN bare[i] ELSE Sorted(bare[i])]

-----------------------------------------------------------------------------
(* JA4.                                                                    *)

Greased == {v \in Uint16 : isGREASEUint16(v)}

Ungreased(s) == Without(s, Greased)

\* utls reports the legacy version only when supported_versions is absent.
unmarshalTLSVersion(hello) ==
    IF ContainsExtension(hello, SupportedVersions)
    THEN LET offered == Ungreased(hello.versions)
         IN  IF offered = << >> THEN 0 ELSE Sorted(offered)[Len(offered)]
    ELSE hello.version

\* TLS 1.0 to 1.3 have names of their own, all others print "00".
TLSVersion(hello) ==
    LET version == unmarshalTLSVersion(hello)
    IN  IF version \in 769 .. 772 THEN version ELSE 0

\* MUTANT of Count: a third digit.
CountAll(s) == Len(s)

\* Two digits.
Count(s) == IF Len(s) < 99 THEN Len(s) ELSE 99

\* Protocols are sequences of bytes.  The first and the last byte of the first
\* protocol, "00" if there is none, and "99" if it is not ASCII.
FirstALPN(hello) ==
    LET first == IF hello.alpn = << >> THEN << >> ELSE Head(hello.alpn)
        ends == IF Len(first) > 2 THEN <<first[1], first[Len(first)]>> ELSE first
    IN  IF ends = << >> THEN <<48, 48>> ELSE IF ends[1] > 127 THEN <<57, 57>> ELSE ends

\* MUTANT of unmarshalExtensions: the order of the wire is kept.
unmarshalExtensionsInOrder(hello) ==
    Without(Ungreased(hello.extensions), {SNI, ALPN})

unmarshalExtensions(hello) ==
    Sorted(Without(Ungreased(hello.extensions), {SNI, ALPN}))

JA4(hello) ==
    [a |-> <<TLSVersion(hello), ContainsExtension(hello, SNI),
             Count(Ungreased(hello.ciphers)), Count(Ungreased(hello.extensions)),
             FirstALPN(hello)>>,
     b |-> Sorted(Ungreased(hello.ciphers)),
     c |-> <<unmarshalExtensions(hello), hello.sigAlgs>>]

-----------------------------------------------------------------------------
(* PeetPrint: the lists of the wire, GREASE as "G", extensions sorted.     *)

\* "G" is represented by a number that is no code point.
G == -1

Marked(s) == [i \in DOMAIN s |-> IF s[i] \in greaseValues THEN G ELSE s[i]]

\* MUTANT of formatExtsSorted: sorted before GREASE is replaced.
formatExtsSortedFirst(s) == Marked(Sorted(s))

formatExtsSorted(s) == Sorted(Marked(s))

\* MUTANT of extensionIDs: extensions without a fixed content are not read.
extensionIDsFixed(hello) ==
    Without(hello.extensions, {Padding, SNI, PreSharedKey})

\* What utls makes of them has length 0: it pads only when told to, and keeps no
\* server name of a hello that it parses.
Unsized == {Padding, SNI}

extensionIDs(hello) == Without(hello.extensions, Unsized)

Lower(protocol) ==
    [i \in DOMAIN protocol |->
        IF protocol[i] \in 65 .. 90 THEN protocol[i] + 32 ELSE protocol[i]]

h2 == <<104, 50>>
http11 == <<104, 116, 116, 112, 47, 49, 46, 49>>
http10 == <<104, 116, 116, 112, 47, 49, 46, 48>>

\* "20", "11" and "10" for the protocols of HTTP, others as they are.  The code
\* joins them with "-", which a name may contain: [h2, a-b] and [h2, a, b] are
\* printed alike there, and are two lists here.
formatALPN(protocols) ==
    [i \in DOMAIN protocols |->
        LET protocol == Lower(protocols[i])
        IN  CASE protocol = h2 -> <<50, 48>>
              [] protocol = http11 -> <<49, 49>>
              [] protocol = http10 -> <<49, 48>>
              [] OTHER -> protocols[i]]

\* MUTANT of PeetPrint: the cipher suites are sorted too.
PeetPrintSortsCiphers(hello) ==
    << Marked(hello.versions), formatALPN(hello.alpn), Marked(hello.groups),
       Marked(hello.sigAlgs), hello.pskModes, Marked(hello.compAlgs),
       Sorted(Marked(hello.ciphers)), formatExtsSorted(extensionIDs(hello)),
       Marked(hello.keyShares) >>

PeetPrint(hello) ==
    << Marked(hello.versions), formatALPN(hello.alpn), Marked(hello.groups),
       Marked(hello.sigAlgs), hello.pskModes, Marked(hello.compAlgs),
       Marked(hello.ciphers), formatExtsSorted(extensionIDs(hello)),
       Marked(hello.keyShares) >>

-----------------------------------------------------------------------------
Fingerprints(hello) ==
    [ja3 |-> SortedBare(hello), ja4 |-> JA4(hello), peetPrint |-> PeetPrint(hello)]
=============================================================================
