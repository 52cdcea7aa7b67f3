--------------------------- MODULE LeakixFindings ---------------------------
(***************************************************************************)
(* What modules/leakix finds about an address or a domain: events of       *)
(* services and leaks, grouped by address, port, protocol and host, and    *)
(* subdomains. An address or a host that is the target is not reported     *)
(* again: what belongs to it hangs at the root, as do things without one.  *)
(***************************************************************************)
EXTENDS Results

LOCAL A == Key("ipv4", "a1")

\* The source a set of at most one result makes, or another.
Or(found, source) == IF found = {} THEN source ELSE By(CHOOSE r \in found : TRUE)

\* An address that is not the target.
ipResults(k, id) ==
    {{}} \cup {{Node(Address(a), ByValue(k), id)} : a \in {b \in Addresses : Address(b) # k}}

emitLeakWrapperSummary(k) ==
    UNION {{{}, ip \cup {Property(Key("summary", "some"), Or(ip, ByValue(k)), Id(1, 2))}} :
           ip \in ipResults(k, Id(1, 1))}

-----------------------------------------------------------------------------
(* One group of events; i numbers it. *)

emitIP(k, i) == ipResults(k, Id(i, 1))

\* The host is compared with the target as it is spelt and reported as validated: it
\* may be the target after all.
emitHost(ip, i) == {{}} \cup {{Node(h, ip, Id(i, 2))} : h \in {T, Host("w.t")}}

emitReverse(ip, i) ==
    {{Tagged(h, ip, Id(i, 3))} : h \in AnyHost} \cup {{Property(Key("ptr", "some"), ip, Id(i, 3))}}

emitPortAndService(parent, i) ==
    LET port == Property(Key("port", "some"), parent, Id(i, 4))
    IN  {{}, {port}, {port, Property(Key("service", "some"), By(port), Id(i, 5))}}

\* emitEventSource and the other emitters of single facts about a service.
serviceFacts(service, i) ==
    Facts(service, <<"source", "summary", "date", "description", "web_server", "hash", "jarm",
                     "cert_fingerprint", "info">>, i, 5)

\* Names of the certificate, each with issuer and date.
emitSANDomains(service, i) ==
    Each(AnyHost, LAMBDA h : Tagged(h, service, Id(i, 20)),
         LAMBDA n : Facts(n, <<"cert_issuer", "cert_not_after">>, i, 20))

\* The host, if it is one, else the target is tagged at the root.
markCompromised(k, host, i) ==
    Tagged(IF host = {} THEN k ELSE (CHOOSE r \in host : TRUE).key, ByValue(k), Id(i, 25))

\* Credentials, or a leak with its data set, below the service, the port or its parent.
emitCredentials(k, host, source, i) ==
    {{}, {markCompromised(k, host, i), Property(Key("leaked_data", "c"), source, Id(i, 26))}}
emitLeaks(k, host, source, i) ==
    {{}, {markCompromised(k, host, i + 1), Property(Key("leaked_data", "l"), source, Id(i, 27)),
          Property(Key("summary", "d"), source, Id(i, 28))}}

emitNetwork(ip, i) ==
    {{}, {Node(Key("asn", "n1"), ip, Id(i, 30)), Property(Key("organization", "some"), ip, Id(i, 31)),
          Node(Key("cidr", "p1"), ip, Id(i, 32))}}

\* emitGeo, emitTags and emitMAC.
addressFacts(ip, i) == Facts(ip, <<"geo", "tag", "mac", "vendor">>, i, 32)

\* What is below the service, or only credentials and leaks below what there is.
formatEventGroup(k, i) ==
    UNION {UNION {
        LET at == Or(ip, ByValue(k))
            parent == Or(host, at)
            leaks(source) == Join(emitCredentials(k, host, source, i),
                                  emitLeaks(k, host, source, i))
            below(found) ==
                LET service == {r \in found : r.key.type = "service"}
                IN  leaks(Or(service, Or(found, parent)))
                    \cup (IF service = {} THEN {}
                          ELSE serviceFacts(Or(service, at), i) \cup emitSANDomains(Or(service, at), i))
        IN  {ip \cup host \cup f : f \in UNION {{found \cup b : b \in below(found)} :
                                                 found \in emitPortAndService(parent, i)}}
            \cup {ip \cup host \cup f :
                  f \in emitReverse(at, i) \cup emitNetwork(at, i) \cup addressFacts(at, i)} :
        host \in emitHost(Or(ip, ByValue(k)), i)} :
        ip \in emitIP(k, i)}

\* A second group: another port of the same address.
formatLeakixResults(k) ==
    emitLeakWrapperSummary(k)
    \cup Join(formatEventGroup(k, 2),
              {{}} \cup UNION {{ip \cup {Property(Key("port", "other"), Or(ip, ByValue(k)), Id(4, 4))}} :
                               ip \in ipResults(k, Id(4, 1))})

-----------------------------------------------------------------------------
\* Subdomains, whose details have no local id.
formatLeakixSubdomains ==
    LET details(n) == {{}, {Property(Key("date", "some"), n, 0), Property(Key("info", "some"), n, 0)}}
        sub(i) == Each({T, Host("w.t"), Host("o")}, LAMBDA h : Tagged(h, Root, Id(i, 1)), details)
    IN  Join(sub(1), sub(2))

LeakixOutputs ==
    Lookup("leakix_ip", A, formatLeakixResults(A))
    \cup Lookup("leakix_domain", T, formatLeakixResults(T))
    \cup Lookup("leakix_subdomains", T, formatLeakixSubdomains)
=============================================================================
