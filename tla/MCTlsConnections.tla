-------------------------- MODULE MCTlsConnections --------------------------
(* TlsConnections over a browser and stacks that differ from it in one     *)
(* respect, and the two operators on lists against those of the standard   *)
(* modules.                                                                *)
EXTENDS TlsConnections, TLC

Grease1 == 2570
Grease2 == 6682
Grease3 == 64250

MCDrawnGrease == {Grease1, Grease2, Grease3}

(* A browser that greases whatever can be greased.  Its list of extensions *)
(* is cut short to keep the orders few; the contents stay.                 *)
Browser ==
    [version |-> 771, ciphers |-> <<Grease1, 4865, 49195, 4866>>,
     extensions |-> <<Grease2, SupportedVersions, Grease3>>,
     groups |-> <<Grease1, 29, 23>>, points |-> << >>,
     versions |-> <<Grease2, 772, 771>>, sigAlgs |-> << >>, alpn |-> << >>,
     pskModes |-> << >>, compAlgs |-> << >>, keyShares |-> <<Grease1, 29>>]

With(id) == [Browser EXCEPT !.extensions = Append(@, id)]

SignatureAlgorithms == 13

\* Another order of the lists, an extension more, other versions or protocols;
\* a browser that draws otherwise, and one whose full handshake is the resumed
\* one of another.
MCStacks ==
    {Browser, With(Padding),
     [Browser EXCEPT !.extensions = <<Grease1, Grease1, SupportedVersions>>,
                     !.ciphers = <<Grease3, 4865, 49195, 4866>>],
     [Browser EXCEPT !.extensions = <<SupportedVersions, Grease1>>],
     [Browser EXCEPT !.extensions = <<PreSharedKey, Grease2, SupportedVersions>>], [With(ALPN) EXCEPT !.alpn = <<h2, http11>>],
     [With(ALPN) EXCEPT !.alpn = <<http11>>],
     [Browser EXCEPT !.ciphers = <<Grease1, 4865, 4866, 49195>>],
     [Browser EXCEPT !.ciphers = <<4865, 49195, 4866>>],
     [Browser EXCEPT !.groups = <<Grease1, 23, 29>>],
     With(SNI),
     [Browser EXCEPT !.versions = <<Grease2, 771>>],
     [Browser EXCEPT !.extensions = <<SNI>>, !.versions = << >>, !.keyShares = << >>],
     [With(SignatureAlgorithms) EXCEPT !.sigAlgs = <<1027, 2052>>],
     [With(SignatureAlgorithms) EXCEPT !.sigAlgs = <<2052, 1027>>],
     [version |-> 769, ciphers |-> [i \in 1 .. 101 |-> 4865 + (i % 2)], extensions |-> << >>,
      groups |-> << >>, points |-> <<0>>, versions |-> << >>, sigAlgs |-> << >>,
      alpn |-> << >>, pskModes |-> << >>, compAlgs |-> << >>, keyShares |-> << >>]}

Lists == UNION {[1 .. n -> {3, 10, 2570, 65535}] : n \in 0 .. 4}

ASSUME WithoutAsSelectSeq ==
    \A s \in Lists, S \in SUBSET {3, 10, 2570} :
        LET Stays(v) == v \notin S IN Without(s, S) = SelectSeq(s, Stays)

ASSUME SortedAsSortSeq == \A s \in Lists : Sorted(s) = SortSeq(s, <)
=============================================================================
