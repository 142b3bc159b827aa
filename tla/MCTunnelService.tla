-------------------------- MODULE MCTunnelService --------------------------
(* Instances of TunnelService for TLC: one static rule that can be anything, one  *)
(* bypassed address, two network services, and the options that lead through every *)
(* branch of setup.                                                                *)
EXTENDS TunnelService

CONSTANTS endpoint, low, high, lan, site, wifi, wired

Opt(dryRun, noDNS, servers, domains, literal, statics) ==
    [dryRun |-> dryRun, noDNS |-> noDNS, servers |-> servers, domains |-> domains,
     literal |-> literal, statics |-> statics]

\* Plain tunnel, tunnel without DNS, static and domain rules, an endpoint given by
\* name, domain rules that setup must reject, a rule that names the endpoint.
MCOptions ==
    {Opt(FALSE, FALSE, 1, FALSE, TRUE, <<>>),
     Opt(FALSE, TRUE, 0, FALSE, TRUE, <<lan>>),
     Opt(FALSE, FALSE, 1, TRUE, FALSE, <<lan>>),
     Opt(FALSE, FALSE, 1, TRUE, TRUE, <<lan, site>>),
     Opt(FALSE, TRUE, 0, TRUE, TRUE, <<>>),
     Opt(FALSE, FALSE, 0, TRUE, TRUE, <<>>),
     Opt(FALSE, TRUE, 1, FALSE, TRUE, <<endpoint>>),
     Opt(TRUE, FALSE, 1, TRUE, FALSE, <<lan>>)}

\* One run with all that setup can do.
FullOptions == {Opt(FALSE, FALSE, 1, TRUE, TRUE, <<lan>>)}
=============================================================================
