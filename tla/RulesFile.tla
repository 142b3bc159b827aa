----------------------------- MODULE RulesFile -----------------------------
(***************************************************************************)
(* The rules file of the tunnel: LoadRules (internal/tunnel/rules.go).     *)
(*                                                                         *)
(* A file is the sequence of its lines without comments and blank ones.    *)
(* An address has Width bits, and a prefix is an address and a length.     *)
(***************************************************************************)
EXTENDS DomainRules

CONSTANT Width   \* bits of an address, 32 in the program

ASSUME WidthAssumption == Width \in Nat

\* Powers of two.
Pow2[n \in 0..Width] == IF n = 0 THEN 1 ELSE 2 * Pow2[n - 1]

Addresses == 0..(Pow2[Width] - 1)

\* "bad" is a line that is no pair, or has no value, one that does not parse, an
\* IPv6 one or an unknown key.
IPLine(addr) == [key |-> "exclude_ip", addr |-> addr, bits |-> Width, pattern |-> <<>>]
CIDRLine(addr, bits) == [key |-> "exclude_cidr", addr |-> addr, bits |-> bits, pattern |-> <<>>]
DomainLine(pattern) == [key |-> "exclude_domain", addr |-> 0, bits |-> 0, pattern |-> pattern]
BadLine == [key |-> "bad", addr |-> 0, bits |-> 0, pattern |-> <<>>]

-----------------------------------------------------------------------------
\* The bits of an address behind a prefix of that length.
HostPart(addr, bits) == addr % Pow2[Width - bits]

\* Mutated: the prefix is taken as it is written.
MaskedNot(addr, bits) == [addr |-> addr, bits |-> bits]

\* Prefix.Masked: the bits behind the prefix are cleared.
Masked(addr, bits) == [addr |-> addr - HostPart(addr, bits), bits |-> bits]

NoRules == [ok |-> TRUE, static |-> <<>>, domains |-> <<>>]

\* One line: the first bad one rejects the file.
LoadLine(rules, line) ==
    IF ~rules.ok \/ line.key = "bad" THEN [NoRules EXCEPT !.ok = FALSE]
    ELSE CASE line.key = "exclude_ip" ->
                [rules EXCEPT !.static = Append(@, [addr |-> line.addr, bits |-> Width])]
           [] line.key = "exclude_cidr" ->
                [rules EXCEPT !.static = Append(@, Masked(line.addr, line.bits))]
           [] line.key = "exclude_domain" -> [rules EXCEPT !.domains = Append(@, line.pattern)]

\* What is loaded of the first lines.
Loaded(lines) ==
    LET loaded[n \in 0..Len(lines)] ==
            IF n = 0 THEN NoRules ELSE LoadLine(loaded[n - 1], lines[n])
    IN loaded

LoadRules(lines) == Loaded(lines)[Len(lines)]

-----------------------------------------------------------------------------
(* The reference *)

\* The kernel takes a route without bits behind its prefix, and routes the addresses
\* that begin with it.
Routable(prefix) == HostPart(prefix.addr, prefix.bits) = 0
Routed(prefix, addr) == addr - HostPart(addr, prefix.bits) = prefix.addr

\* What a line is there to keep out of the tunnel.
NamesAddress(line, addr) ==
    \/ line.key = "exclude_ip" /\ addr = line.addr
    \/ /\ line.key = "exclude_cidr"
       /\ LET host == Pow2[Width - line.bits] IN addr \div host = line.addr \div host

NamesHost(line, host) == line.key = "exclude_domain" /\ Excludes(line.pattern, host)
=============================================================================
