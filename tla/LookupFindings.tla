--------------------------- MODULE LookupFindings ---------------------------
(***************************************************************************)
(* What the smaller collection modules find: lists of hosts, registries of *)
(* addresses and autonomous systems, local databases, breaches, and        *)
(* vulnerabilities. Most results hang below the target; the few deeper     *)
(* ones name their source by its local id.                                 *)
(***************************************************************************)
EXTENDS Results

\* Targets other than the domain "t", and references to them.
A == Key("ipv4", "a1")
I == Key("ipv4_ambiguous", "a0")
N == Key("asn", "n1")
C == Key("cve", "c1")
S == Key("cpe", "s1")
M == Email("n@t")

\* At most one host at the root, tagged.
TaggedHost(root, keys, record, place) ==
    Perhaps(keys, LAMBDA h : Tagged(h, root, Id(record, place)))

\* Untagged nodes at the root, one per record.
Nodes(root, keys) == Pair(LAMBDA i : {{Node(k, root, Id(i, 1))} : k \in keys})

-----------------------------------------------------------------------------
(* Names *)

\* funcDecompose: each parent below the name it comes from, none with a local id; a
\* registered domain gives itself.
funcDecompose(k) ==
    LET parent(v) == IF v = "v.w.t" THEN Host("w.t") ELSE T
        chain == {k} \cup IF k.value = "v.w.t" THEN {Host("w.t")} ELSE {}
    IN  {{Node(parent(c.value), ByValue(c), 0) : c \in chain}}

\* The decimal and the POSIX reading of an ambiguous address, if both are addresses.
extractIPs == {{Node(a, ByValue(I), 0) : a \in read} : read \in SUBSET AnyAddress}

\* A line names a host and its address; either may be missing.
parseHostSearch ==
    Pair(LAMBDA i :
        UNION {{{Tagged(h, Root, Id(i, 1))} \cup b :
                b \in Perhaps(AnyAddress, LAMBDA a :
                        Node(a, By(Tagged(h, Root, Id(i, 1))), Id(i, 2)))} : h \in AnyHost}
        \cup Perhaps(AnyAddress, LAMBDA a : Node(a, Root, Id(i, 2))))
    \cup Facts(Root, <<"api_quota">>, 1, 1)

\* Names below the target, wildcards without their label; HTTP 403 is a finding.
getDomains ==
    Pair(LAMBDA i : {{Tagged(Key("subdomain", h), Root, Id(i, 1))} : h \in {"w.t", "t"}})
    \cup Facts(Root, <<"info">>, 1, 1)

\* Keys found below the hashed names of mailboxes, or of the target.
getOPENPGPKEYData == Facts(Root, <<"openpgpkey">>, 1, 1)
getSMIMEAData == Facts(Root, <<"smimea">>, 1, 1)

-----------------------------------------------------------------------------
(* Addresses and autonomous systems *)

getASNAbuseContacts == Nodes(ByValue(N), AnyMailbox \cup {Email("bad")})
getASNInfo == Facts(ByValue(N), <<"organization">>, 1, 1)

\* The origin, which is the target, and the chain of its largest upstreams.
getASNPeers ==
    {{}, {Node(N, ByValue(N), Id(1, 1)), Property(Key("peers", "some"), ByValue(N), Id(1, 2))}}

getASNPrefixes ==
    {{Node(N, ByValue(N), Id(3, 1))} \cup p : p \in Nodes(ByValue(N), KeysOf("cidr", {"p1", "p2"}))}

getIPAbuseContacts == Nodes(ByValue(A), AnyMailbox \cup {Email("bad")})
getIPInfo == Facts(ByValue(A), <<"netname", "description">>, 1, 1)
getRBLData == Facts(ByValue(A), <<"tag">>, 1, 1)
getTorData == Facts(ByValue(A), <<"tag">>, 1, 1)

\* A prefix and the systems that announce it.
getASNData ==
    Pair(LAMBDA i : {{Node(Key("cidr", "p1"), ByValue(A), Id(i, 1))} \cup n :
                     n \in Perhaps(KeysOf("asn", {"n1", "n2"}), LAMBDA k :
                                   Node(k, ByValue(A), Id(i, 2)))})

\* A name that is no host is kept as text.
getPTRData ==
    Pair(LAMBDA i : {{Tagged(h, ByValue(A), Id(i, 1))} : h \in AnyHost}
                    \cup Facts(ByValue(A), <<"ptr">>, i, 1))

\* abuseipdb: reports on the target, its domain, country and names, and, for a score, a
\* tag on the target itself.
parseReports ==
    {{}} \cup {{Property(Key("total_reports", "some"), ByValue(A), Id(4, 1))} \cup r :
               r \in Facts(ByValue(A), <<"abuse_report", "tag">>, 4, 1)}
populateMoreResults ==
    All(<<TaggedHost(ByValue(A), AnyHost, 2, 1), Facts(ByValue(A), <<"geo">>, 2, 1),
          TaggedHost(ByValue(A), AnyHost, 3, 1) \cup Facts(ByValue(A), <<"hostname">>, 3, 1),
          parseReports>>)
populateResults ==
    All(<<Headed(Property(Key("abuse_score", "some"), ByValue(A), Id(1, 1)),
                 {{Tagged(A, ByValue(A), Id(1, 2))}}),
          Facts(ByValue(A), <<"tag", "usage_type", "isp">>, 1, 2),
          populateMoreResults>>)

-----------------------------------------------------------------------------
(* Local databases of addresses, and ipinfo *)

\* ip2location: the domain is not validated.
getIPASN ==
    All(<<Perhaps(KeysOf("asn", {"n1"}), LAMBDA k : Node(k, ByValue(A), Id(1, 1))),
          Facts(ByValue(A), <<"organization", "usage_type">>, 2, 1),
          TaggedHost(ByValue(A), KeysOf("domain", Hosts \cup Malformed), 3, 1),
          Perhaps(KeysOf("cidr", {"p1"}), LAMBDA k : Node(k, ByValue(A), Id(4, 1)))>>)
getGeoIP ==
    Join(Facts(ByValue(A), <<"geo", "isp", "usage_type", "info">>, 1, 1),
         TaggedHost(ByValue(A), KeysOf("domain", Hosts \cup Malformed), 2, 1))
getProxyCheck ==
    Join(Facts(ByValue(A), <<"tag", "abuse_score", "date", "usage_type">>, 1, 1),
         TaggedHost(ByValue(A), KeysOf("domain", Hosts \cup Malformed), 2, 1))

\* maxmind: the same without the domain; the enterprise database names a host.
maxmindASN ==
    Join(Perhaps(KeysOf("asn", {"n1"}), LAMBDA k : Node(k, ByValue(A), Id(1, 1))),
         Facts(ByValue(A), <<"isp", "organization">>, 2, 1))
maxmindGeo == Facts(ByValue(A), <<"geo">>, 1, 1)
maxmindProxy == Facts(ByValue(A), <<"tag", "confidence", "info", "date">>, 1, 1)
formatEnterpriseTraits ==
    Join(TaggedHost(ByValue(A), AnyHost, 1, 1),
         Facts(ByValue(A), <<"geo", "confidence", "info", "usage_type">>, 2, 1))

\* ipinfo: a system with its name, type and domain; a location with its date; the
\* mobile network and the anonymiser below the tag that tells of it.
parseASN ==
    LET asn == Node(Key("asn", "n1"), ByValue(A), Id(1, 1))
    IN  Headed(asn, Join(Facts(By(asn), <<"date", "netname", "usage_type">>, 1, 1),
                         Perhaps(AnyHost, LAMBDA h : Node(h, By(asn), Id(1, 9)))))
parseGeo ==
    LET geo == Property(Key("geo", "some"), ByValue(A), Id(2, 1))
    IN  Headed(geo, Facts(By(geo), <<"date">>, 2, 1))
parseMobile ==
    LET mobile == Property(Key("tag", "mobile"), ByValue(A), Id(3, 1))
    IN  Headed(mobile, Facts(By(mobile), <<"info">>, 3, 1))
parseAnonymous ==
    LET anonymous == Property(Key("tag", "anonymous"), ByValue(A), Id(4, 1))
    IN  Headed(anonymous, Facts(By(anonymous), <<"tag", "info", "date">>, 4, 1))

-----------------------------------------------------------------------------
(* Breaches and vulnerabilities *)

\* haveibeenpwned: any breach tags the mailbox; a breach has a domain, tags and
\* properties.
processBreaches ==
    LET breach(i) == Property(Key("breach", "some"), ByValue(M), Id(i, 1))
        below(i) ==
            Join(Perhaps(KeysOf("domain", Hosts \cup Malformed), LAMBDA h :
                         Node(h, By(breach(i)), Id(i, 2))),
                 Facts(By(breach(i)), <<"tag", "date", "description">>, i, 3))
    IN  {{}} \cup {{Tagged(M, ByValue(M), Id(3, 1))} \cup b :
                   b \in Pair(LAMBDA i : Headed(breach(i), below(i)))}

\* A weakness and, if the dictionary knows it, what it means.
extractProblemTypes(source, i) ==
    LET cwe == Property(Key("cwe", "some"), source, Id(i, 21))
    IN  Headed(cwe, Facts(By(cwe), <<"description">>, i, 21))

\* Dates, titles, exploits, scores and the products concerned; the weaknesses of the
\* numbering authority and of others are listed without regard to each other.
extractCVEResults(source, i) ==
    All(<<Facts(source, <<"date", "description", "summary", "exploit", "cvss", "epss">>, i, 1),
          Facts(source, <<"cpe">>, i, 9),
          extractProblemTypes(source, i), extractProblemTypes(source, i + 4)>>)

\* The vulnerability itself is reported again, as a node.
parseCVEResponse ==
    {{Node(C, ByValue(C), Id(3, 1))} \cup r : r \in extractCVEResults(ByValue(C), 1)}

\* The vulnerabilities of a product, from two lists that may name the same one.
parseCPEResponse ==
    LET cve(i, v) == Property(Key("cve", v), ByValue(S), Id(i, 1))
    IN  {{Property(S, ByValue(S), Id(3, 1))} \cup r :
         r \in Pair(LAMBDA i : UNION {{{cve(i, v)} \cup b :
                        b \in Join(Facts(By(cve(i, v)), <<"date", "cvss", "epss">>, i, 1),
                                   extractProblemTypes(By(cve(i, v)), i))} :
                        v \in {"c1", "c2"}})}

-----------------------------------------------------------------------------
\* What each of these functions finds, under the name of its module.
LookupOutputs ==
    UNION {Lookup("decompose", k, funcDecompose(k)) : k \in {T, Host("w.t"), Host("v.w.t")}}
    \cup Lookup("parse_ambiguous", I, extractIPs)
    \cup Lookup("hackertarget", T, parseHostSearch)
    \cup Lookup("anubis", T, getDomains)
    \cup Lookup("mailcrypto", T, getOPENPGPKEYData \cup getSMIMEAData)
    \cup Lookup("asn_metadata", N, getASNAbuseContacts \cup getASNInfo \cup getASNPeers
                                   \cup getASNPrefixes)
    \cup Lookup("ip_metadata", A, getIPAbuseContacts \cup getIPInfo \cup getRBLData
                                  \cup getTorData \cup getASNData \cup getPTRData)
    \cup Lookup("abuseipdb", A, populateResults)
    \cup Lookup("ip2location", A, getIPASN \cup getGeoIP \cup getProxyCheck)
    \cup Lookup("maxmind", A, maxmindASN \cup maxmindGeo \cup maxmindProxy
                              \cup formatEnterpriseTraits)
    \cup Lookup("ipinfo", A, All(<<parseASN, parseGeo, parseMobile, parseAnonymous>>))
    \cup Lookup("haveibeenpwned", M, processBreaches)
    \cup Lookup("vuln_lookup", C, parseCVEResponse)
    \cup Lookup("vuln_lookup", S, parseCPEResponse)
=============================================================================
