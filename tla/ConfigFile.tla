----------------------------- MODULE ConfigFile -----------------------------
(***************************************************************************)
(* The configuration file from its lines to the device: Parse and ToUAPI   *)
(* (internal/config/awg.go), ValidateConfig, ResolveEndpointIPv4 and       *)
(* CloneConfigWithResolvedEndpoint (internal/tunnel/config.go), and the    *)
(* device that reads what ToUAPI writes.                                   *)
(*                                                                         *)
(* A file is the sequence of its lines without comments and blank ones: a  *)
(* section's header, or a key and its value, or text that is neither.      *)
(* "jc" stands for the numbers Jc to S4, and "h1" for the texts H1 to I5,  *)
(* which the code treats alike.                                            *)
(***************************************************************************)
EXTENDS Integers, Sequences, FiniteSets, SequencesExt, FiniteSetsExt

CONSTANTS
    NotANumber,   \* the value of a line whose value is no number
    Keys,         \* texts that are a key in base64
    CIDRs4,       \* texts that are an IPv4 address with a mask
    CIDRs6,       \* an IPv6 one
    Literal,      \* endpoints given by an IPv4 address (IPv6 ones are left out)
    Lookup        \* what the other well-formed endpoints resolve to, "" for no IPv4 address

\* The empty text, which stands for what is not given.
Empty == ""

\* It is no key.
ASSUME KeysAssumption == Empty \notin Keys

Texts == {"privatekey", "h1", "publickey", "presharedkey", "endpoint"}
Numbers == {"mtu", "jc", "persistentkeepalive"}
Lists == {"address", "dns", "allowedips"}

EmptyInterface ==
    [privatekey |-> Empty, address |-> <<>>, dns |-> <<>>, mtu |-> 0, jc |-> 0, h1 |-> Empty]

EmptyPeer ==
    [publickey |-> Empty, presharedkey |-> Empty, endpoint |-> Empty, allowedips |-> <<>>,
     persistentkeepalive |-> 0]

Header(section) == [what |-> "section", key |-> section, value |-> ""]
Pair(key, value) == [what |-> "pair", key |-> key, value |-> value]
Text == [what |-> "text", key |-> "", value |-> ""]

-----------------------------------------------------------------------------
(* Parse *)

\* A text or a number replaces the one before it, a list is added to it; what is no
\* number, and a key the section does not have, is ignored.
Assign(entity, key, value) ==
    IF key \notin DOMAIN entity \/ value = NotANumber THEN entity
    ELSE IF key \in Lists THEN [entity EXCEPT ![key] = @ \o value]
    ELSE [entity EXCEPT ![key] = value]

\* currentSection, the config so far, and currentPeer: none or one.
NothingParsed == [section |-> "", interface |-> EmptyInterface, peers |-> <<>>, current |-> <<>>]

\* A header.  One of a peer completes the peer before it.
EnterSection(state, section) ==
    IF section # "peer" THEN [state EXCEPT !.section = section]
    ELSE [state EXCEPT !.section = section, !.peers = @ \o state.current,
                       !.current = <<EmptyPeer>>]

ParseLine(state, line) ==
    CASE line.what = "section" -> EnterSection(state, line.key)
      [] line.what = "pair" /\ state.section = "interface" ->
            [state EXCEPT !.interface = Assign(@, line.key, line.value)]
      [] line.what = "pair" /\ state.section = "peer" ->
            [state EXCEPT !.current =
                <<Assign(IF @ = <<>> THEN EmptyPeer ELSE @[1], line.key, line.value)>>]
      [] OTHER -> state

\* Mutated: the last peer is left out when another section follows it.
ParsedOpenPeerOnly(state) ==
    [interface |-> state.interface,
     peers |-> IF state.section = "peer" THEN state.peers \o state.current ELSE state.peers]

\* The end of the file completes the last peer.
Parsed(state) == [interface |-> state.interface, peers |-> state.peers \o state.current]

\* What has been parsed of the first lines.
ParsedLines(lines) ==
    LET state[n \in 0..Len(lines)] ==
            IF n = 0 THEN NothingParsed ELSE ParseLine(state[n - 1], lines[n])
    IN state

Parse(lines) == Parsed(ParsedLines(lines)[Len(lines)])

\* The parser's own check.
ParseAccepts(cfg) == cfg.interface.privatekey # Empty

-----------------------------------------------------------------------------
(* Validation and resolution of a tunnel's configuration *)

EndpointPeers(cfg) == {i \in DOMAIN cfg.peers : cfg.peers[i].endpoint # Empty}

\* ResolveEndpointIPv4, "" when it fails.
Resolve(endpoint) == IF endpoint \in Literal THEN endpoint ELSE Lookup[endpoint]

TunnelEndpoint(cfg) == Resolve(cfg.peers[CHOOSE i \in EndpointPeers(cfg) : TRUE].endpoint)

\* ValidateConfig, and the lookup after it.
TunnelAccepts(cfg) ==
    /\ Cardinality(EndpointPeers(cfg)) = 1
    /\ \A i \in EndpointPeers(cfg) : cfg.peers[i].endpoint \in Literal \cup DOMAIN Lookup
    /\ Range(cfg.interface.address) \subseteq CIDRs4 \cup CIDRs6
    /\ Range(cfg.interface.address) \cap CIDRs4 # {}
    /\ TunnelEndpoint(cfg) # Empty

\* CloneConfigWithResolvedEndpoint.
Resolved(cfg, endpoint) ==
    [cfg EXCEPT !.peers =
        [i \in DOMAIN cfg.peers |->
            IF cfg.peers[i].endpoint = Empty THEN cfg.peers[i]
            ELSE [cfg.peers[i] EXCEPT !.endpoint = endpoint]]]

-----------------------------------------------------------------------------
(* ToUAPI *)

Optional(present, key, value) == IF present THEN <<<<key, value>>>> ELSE <<>>

\* Mutated: the endpoint is written before the key that says whose it is.
PeerLinesEndpointFirst(peer) ==
    Optional(peer.endpoint # Empty, "endpoint", peer.endpoint)
    \o <<<<"public_key", peer.publickey>>>>
    \o Optional(peer.presharedkey # Empty, "preshared_key", peer.presharedkey)
    \o [i \in DOMAIN peer.allowedips |-> <<"allowed_ip", peer.allowedips[i]>>]
    \o Optional(peer.persistentkeepalive > 0, "persistent_keepalive_interval",
                peer.persistentkeepalive)

PeerLines(peer) ==
    <<<<"public_key", peer.publickey>>>>
    \o Optional(peer.presharedkey # Empty, "preshared_key", peer.presharedkey)
    \o Optional(peer.endpoint # Empty, "endpoint", peer.endpoint)
    \o [i \in DOMAIN peer.allowedips |-> <<"allowed_ip", peer.allowedips[i]>>]
    \o Optional(peer.persistentkeepalive > 0, "persistent_keepalive_interval",
                peer.persistentkeepalive)

\* base64ToHex takes a key, or the empty text for none.
UAPIAccepts(cfg) ==
    /\ cfg.interface.privatekey \in Keys
    /\ \A i \in DOMAIN cfg.peers : {cfg.peers[i].publickey, cfg.peers[i].presharedkey}
                                        \subseteq Keys \cup {Empty}

\* What is written of the peers, one after the other.
PeersLines(peers) ==
    LET written[n \in 0..Len(peers)] ==
            IF n = 0 THEN <<>> ELSE written[n - 1] \o PeerLines(peers[n])
    IN written[Len(peers)]

ToUAPI(cfg) ==
    <<<<"private_key", cfg.interface.privatekey>>>>
    \o Optional(cfg.interface.jc > 0, "jc", cfg.interface.jc)
    \o Optional(cfg.interface.h1 # Empty, "h1", cfg.interface.h1)
    \o <<<<"replace_peers", "true">>>>
    \o PeersLines(cfg.peers)

-----------------------------------------------------------------------------
(* The device, external: IpcSet reads line by line *)

NoPeer == [key |-> Empty, presharedkey |-> Empty, endpoint |-> Empty, keepalive |-> 0]

\* "at" is the peer the lines are about; a prefix is routed to one peer.
NewDevice ==
    [ok |-> TRUE, private |-> Empty, jc |-> 0, h1 |-> Empty, at |-> Empty,
     peers |-> [k \in Keys |-> NoPeer], allowed |-> [p \in CIDRs4 \cup CIDRs6 |-> Empty]]

SetPeer(device, field, value) ==
    IF device.at = Empty THEN [device EXCEPT !.ok = FALSE]
    ELSE [device EXCEPT !.peers[device.at][field] = value]

\* A public key selects its peer, which it makes if there is none; an endpoint has to
\* be an address; a prefix is taken from the peer that has it.
IpcLine(device, line) ==
    LET value == line[2] IN
    CASE line[1] = "private_key" -> [device EXCEPT !.private = value]
      [] line[1] = "jc" -> [device EXCEPT !.jc = value]
      [] line[1] = "h1" -> [device EXCEPT !.h1 = value]
      [] line[1] = "replace_peers" -> [device EXCEPT !.peers = NewDevice.peers,
                                                     !.allowed = NewDevice.allowed]
      [] line[1] = "public_key" ->
            IF value \notin Keys THEN [device EXCEPT !.ok = FALSE]
            ELSE [device EXCEPT !.at = value, !.peers[value].key = value]
      [] line[1] = "preshared_key" -> SetPeer(device, "presharedkey", value)
      [] line[1] = "endpoint" ->
            IF value \in Literal THEN SetPeer(device, "endpoint", value)
            ELSE [device EXCEPT !.ok = FALSE]
      [] line[1] = "persistent_keepalive_interval" -> SetPeer(device, "keepalive", value)
      [] line[1] = "allowed_ip" ->
            IF value \notin CIDRs4 \cup CIDRs6 \/ device.at = Empty THEN [device EXCEPT !.ok = FALSE]
            ELSE [device EXCEPT !.allowed[value] = device.at]

\* What a device is after some lines.
IpcRead(device, lines) ==
    LET read[n \in 0..Len(lines)] ==
            IF n = 0 THEN device ELSE IpcLine(read[n - 1], lines[n])
    IN read[Len(lines)]

IpcSet(lines) == IpcRead(NewDevice, lines)

-----------------------------------------------------------------------------
(* The references *)

\* The header a line stands under, 0 for none.
HeaderOf(lines, i) == Max({0} \cup {h \in 1..i : lines[h].what = "section"})

\* A line gives a key a value.
Gives(line, key) == line.what = "pair" /\ line.key = key /\ line.value # NotANumber

\* The lists that those of the first n lines that are in S give a key, joined.
Joined(lines, S, key) ==
    LET joined[n \in 0..Len(lines)] ==
            IF n = 0 THEN <<>>
            ELSE IF n \in S /\ Gives(lines[n], key) THEN joined[n - 1] \o lines[n].value
            ELSE joined[n - 1]
    IN joined

\* What those of the first n lines that are in S say: of lists everything, of the rest
\* the last.
Said(lines, S, n, default) ==
    [key \in DOMAIN default |->
        LET given == {i \in S \cap (1..n) : Gives(lines[i], key)} IN
        IF key \in Lists THEN Joined(lines, S, key)[n]
        ELSE IF given = {} THEN default[key] ELSE lines[Max(given)].value]

\* The headers [Peer] among the first n lines, in their order.
PeerHeaders(lines) ==
    LET headers[n \in 0..Len(lines)] ==
            IF n = 0 THEN <<>>
            ELSE IF lines[n] = Header("peer") THEN Append(headers[n - 1], n)
            ELSE headers[n - 1]
    IN headers

Under(lines, h) == {i \in DOMAIN lines : HeaderOf(lines, i) = h}
InInterface(lines) ==
    UNION {Under(lines, h) : h \in {g \in DOMAIN lines : lines[g] = Header("interface")}}

\* A configuration is what its [Interface] sections say, and one peer for each header
\* [Peer], which has what stands under that header.
Meaning(lines) ==
    LET n == Len(lines)
        headers == PeerHeaders(lines)[n]
    IN [interface |-> Said(lines, InInterface(lines), n, EmptyInterface),
        peers |-> [k \in DOMAIN headers |-> Said(lines, Under(lines, headers[k]), n, EmptyPeer)]]

\* A number that is not positive counts as left out, as the empty text does.
LeftOut(field, value) == IF field \in Numbers THEN value <= 0 ELSE value = Empty

\* The value the peers of a key give a field: the last that is not left out.
Given(cfg, key, field) ==
    LET some == {i \in DOMAIN cfg.peers :
                    cfg.peers[i].publickey = key /\ ~LeftOut(field, cfg.peers[i][field])}
    IN IF some = {} THEN EmptyPeer[field] ELSE cfg.peers[Max(some)][field]

\* The last peer that lists a prefix.
AllowedTo(cfg, prefix) ==
    LET some == {i \in DOMAIN cfg.peers : prefix \in Range(cfg.peers[i].allowedips)}
    IN IF some = {} THEN Empty ELSE cfg.peers[Max(some)].publickey

\* A configuration a device can be given.
DeviceTakes(cfg) ==
    \A i \in DOMAIN cfg.peers :
        /\ cfg.peers[i].publickey \in Keys
        /\ cfg.peers[i].endpoint \in Literal \cup {Empty}
        /\ Range(cfg.peers[i].allowedips) \subseteq CIDRs4 \cup CIDRs6

\* A device that has a configuration.
Has(device, cfg) ==
    /\ device.private = cfg.interface.privatekey
    /\ device.jc = Max({0, cfg.interface.jc}) /\ device.h1 = cfg.interface.h1
    /\ {k \in Keys : device.peers[k].key = k} = {cfg.peers[i].publickey : i \in DOMAIN cfg.peers}
    /\ \A k \in Keys :
            /\ device.peers[k].presharedkey = Given(cfg, k, "presharedkey")
            /\ device.peers[k].endpoint = Given(cfg, k, "endpoint")
            /\ device.peers[k].keepalive = Given(cfg, k, "persistentkeepalive")
    /\ \A p \in DOMAIN device.allowed : device.allowed[p] = AllowedTo(cfg, p)
=============================================================================
