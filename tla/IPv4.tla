-------------------------------- MODULE IPv4 --------------------------------
(***************************************************************************)
(* IPv4 arithmetic and the scope of scans: domain/ipv4.js, domain/         *)
(* interface-policy.js and what the collectors and the server make of      *)
(* them.  Addresses are numbers of Width bits, 32 in the code; a range is  *)
(* an address and the length of its prefix.  Texts that are no range have  *)
(* been refused by parseCIDR.                                              *)
(***************************************************************************)
EXTENDS Selection, SequencesExt

CONSTANTS Width,        \* bits of an address
          SafePrefix,   \* the shortest prefix that may be scanned, 24 in the code
          PrivateRange, \* the private and link-local ranges
          AllowedRange, \* BOUSHUN_ALLOWED_CIDRS
          Name,         \* names of interfaces
          VirtualName   \* those that VIRTUAL_INTERFACE matches

Address == 0..(2^Width - 1)
Prefix == 0..Width
CIDR == [address : Address, prefix : Prefix]

\* Powers of two are spelled out for the provers.  The private ranges of the code, of /8 to
\* /16, are larger than any that may be scanned.
ASSUME IPv4Assumption ==
    /\ Width \in Nat \ {0} /\ SafePrefix \in Prefix
    /\ \A n \in 0..Width : 2^n \in Nat \ {0}
    /\ \A m, n \in 0..Width : m + n <= Width => 2^(m + n) = 2^m * 2^n
    /\ PrivateRange \subseteq CIDR /\ AllowedRange \subseteq CIDR
    /\ \A r \in PrivateRange : r.prefix <= SafePrefix
    /\ VirtualName \subseteq Name
-----------------------------------------------------------------------------
\* The << of 32-bit numbers: it takes the distance modulo their width.
ShiftLeft(x, n) == (x * 2^(n % Width)) % 2^Width

Mask(p) == IF p = 0 THEN 0 ELSE ShiftLeft(2^Width - 1, Width - p)
HostMask(p) == 2^Width - 1 - Mask(p)

\* parseCIDR.
NetworkInt(c) == c.address - (c.address % (HostMask(c.prefix) + 1))
BroadcastInt(c) == NetworkInt(c) + HostMask(c.prefix)
Canonical(c) == [c EXCEPT !.address = NetworkInt(c)]

ContainsIPv4(c, a) == NetworkInt(c) <= a /\ a <= BroadcastInt(c)

\* Mutant: one end is compared.
ContainsNetwork(container, c) == NetworkInt(container) <= NetworkInt(c) /\ NetworkInt(c) <= BroadcastInt(container)

ContainsCIDR(container, c) == NetworkInt(container) <= NetworkInt(c) /\ BroadcastInt(c) <= BroadcastInt(container)

IsAllowedLocalIPv4(a) == \E r \in PrivateRange : ContainsIPv4(r, a)

\* assertSafeScanCIDR does not throw.
Safe(c) == /\ c.prefix >= SafePrefix
           /\ IsAllowedLocalIPv4(NetworkInt(c)) /\ IsAllowedLocalIPv4(BroadcastInt(c))
           /\ \E r \in AllowedRange : ContainsCIDR(r, c)

\* hostAddresses: without the two ends, but in the smallest ranges.
HostAddresses(c, exclusions) ==
    LET ends == IF c.prefix >= Width - 1 THEN {} ELSE {NetworkInt(c), BroadcastInt(c)}
    IN  (NetworkInt(c)..BroadcastInt(c)) \ (ends \cup exclusions)
-----------------------------------------------------------------------------
\* An interface: its name, whether it is not DOWN, and its addresses with their prefixes.
Loopback == "lo"
NoName == ""      \* of the interface of a device that was not seen on one
Policy == [map : BOOLEAN, identity : BOOLEAN, scan : BOOLEAN]

\* No interface has an empty name, and users cannot say anything of one that has.
ASSUME NameAssumption == NoName \notin Name

DefaultPolicy(name, up) ==
    LET real == name \notin VirtualName
    IN  [map |-> real /\ up, identity |-> real, scan |-> real /\ up]

\* What users may have set: some fields of the policies of some interfaces.
IsSettings(settings) ==
    /\ DOMAIN settings \subseteq Name
    /\ \A name \in DOMAIN settings : /\ DOMAIN settings[name] \subseteq {"map", "identity", "scan"}
                                     /\ \A f \in DOMAIN settings[name] : settings[name][f] \in BOOLEAN

\* resolveInterfacePolicy: the settings have an entry for some interfaces, which may say
\* nothing of a field.
ResolvePolicy(settings, name, up) ==
    LET default == DefaultPolicy(name, up)
        configured == IF name \in DOMAIN settings THEN settings[name] ELSE <<>>
    IN  [f \in DOMAIN default |-> IF f \in DOMAIN configured THEN configured[f] ELSE default[f]]

\* The ranges of the interfaces that may be scanned, in their order, cut to what is safe.
Scannable(interfaces, settings) ==
    FlattenSeq([i \in 1..Len(interfaces) |->
        IF ResolvePolicy(settings, interfaces[i].name, interfaces[i].up).scan THEN interfaces[i].addresses ELSE <<>>])

Cut(c) == Canonical([c EXCEPT !.prefix = IF SafePrefix > @ THEN SafePrefix ELSE @])

\* chooseDefaultScanCIDR gives the first of these, if there is any; isPrivateCandidate is
\* about the first address of the range.
Candidates(interfaces, settings) ==
    LET ranges == Scannable(interfaces, settings)
    IN  Kept([i \in 1..Len(ranges) |-> Cut(ranges[i])], {c \in CIDR : IsAllowedLocalIPv4(c.address)})

\* buildScanCandidates, and allowedCandidates of the collector: they and the allowed ranges
\* inside them, as far as they are safe.
ScanCandidates(interfaces, settings) ==
    LET local == ToSet(Candidates(interfaces, settings))
        inside == {r \in AllowedRange : \E c \in local : ContainsCIDR(c, r)}
    IN  {Canonical(c) : c \in {x \in local \cup inside : Safe(x)}}

\* projectSnapshot: those inside a range of an interface that may be scanned by now.
ShownCandidates(candidates, interfaces, settings) ==
    {c \in candidates : \E x \in ToSet(Scannable(interfaces, settings)) : ContainsCIDR(Canonical(x), c)}
=============================================================================
