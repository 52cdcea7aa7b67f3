--------------------------- MODULE NetlasFindings ---------------------------
(***************************************************************************)
(* What modules/netlas finds about a domain and an address, and in the     *)
(* downloaded list of domains. Every result has a local id; below anything *)
(* but the target, sources are named by it.                                *)
(***************************************************************************)
EXTENDS Results

LOCAL A == Key("ipv4", "a1")

\* The target, reported again without a tag.
Again(k) == Node(k, ByValue(k), Id(9, 9))

\* addSystemTagToNode: the first result that is the target gets the tag, or the
\* target is reported once more with it.
addSystemTagToNode(results, k) ==
    LET same == {r \in results : r.category = "node" /\ r.key = k}
        first == CHOOSE r \in same : \A q \in same : r.lid >= q.lid
    IN  IF same = {} THEN results \cup {Tagged(k, ByValue(k), Id(9, 8))}
        ELSE (results \ {first}) \cup {[first EXCEPT !.tagged = TRUE]}

-----------------------------------------------------------------------------
(* Ports, software and its vulnerabilities *)

parsePorts(root) == Facts(root, <<"port">>, 1, 0)

extractCVEMetrics(source) ==
    Facts(source, <<"attack_vector", "attack_complexity", "privileges_required",
                    "user_interaction", "confidentiality_impact", "integrity_impact",
                    "availability_impact">>, 1, 20)

\* Severity, score or, for their sake, the metrics alone; without any of them the
\* metrics would hang below the vulnerability, but then there are none.
extractCVSS(cve) ==
    LET cvss == Property(Key("cvss", "some"), cve, Id(1, 19))
    IN  Headed(cvss, extractCVEMetrics(By(cvss)))

\* The vulnerability of a product whose CPE, service or port is at parent.
parseSoftwareCVEs(parent) ==
    LET cve == Property(Key("cve", "c1"), parent, Id(1, 10))
    IN  Headed(cve, Join(Facts(By(cve), <<"summary", "date", "exploit">>, 1, 11),
                         extractCVSS(By(cve))))

emitNewService(port) ==
    LET service == Property(Key("service", "some"), port, Id(1, 2))
    IN  {{service} \cup d : d \in Facts(By(service), <<"description", "category">>, 1, 3)}

\* A service and its CPE; a second service with the same CPE is the first one.
parseSoftwareTags(port) ==
    UNION {LET service == CHOOSE r \in s : r.key.type = "service"
               cpe == Property(Key("cpe", "s1"), By(service), Id(1, 6))
           IN  {s \cup v : v \in parseSoftwareCVEs(By(service))}
               \cup {s \cup {cpe} \cup v : v \in parseSoftwareCVEs(By(cpe))} :
           s \in emitNewService(port)}

\* Software hangs below the port of its URI, if that is known, else below the target;
\* so do vulnerabilities that name no product.
parseSoftware(root) ==
    UNION {LET port == IF p = {} THEN root ELSE By(CHOOSE r \in p : TRUE)
           IN  {p \cup s : s \in {{}} \cup parseSoftwareTags(port) \cup parseSoftwareCVEs(port)} :
           p \in parsePorts(root)}

-----------------------------------------------------------------------------
(* Indicators of compromise *)

extractIoCMetadata(record, score) ==
    All(<<Facts(record, <<"date", "isp">>, 2, 3),
          Perhaps(KeysOf("asn", {"n2"}), LAMBDA k : Node(k, record, Id(2, 6))),
          Facts(score, <<"port">>, 2, 6)>>)

parseIoCTags(score) == Facts(score, <<"threat_type", "related_threat">>, 2, 10)
parseIoCFalsePositive(score) == Facts(score, <<"info">>, 2, 12)

\* A record, with its score between it and what is said of the threat.
parseIoCItem(root) ==
    LET record == Property(Key("ioc_record", "some"), root, Id(2, 1))
        score == Property(Key("threat_score", "some"), By(record), Id(2, 2))
        threat(s) == All(<<Facts(s, <<"threat_url">>, 2, 13), parseIoCTags(s)>>)
                     \cup parseIoCFalsePositive(s) \cup extractIoCMetadata(By(record), s)
    IN  {{record} \cup t : t \in threat(By(record))}
        \cup {{record, score} \cup t : t \in threat(By(score))}

-----------------------------------------------------------------------------
(* DNS records, of the target or of a domain of the list *)

parseDomainDNSSimple(source, i) ==
    {{Node(a, source, Id(i, 20))} : a \in AnyAddress}
    \cup {{Tagged(h, source, Id(i, 21))} : h \in Others}

parseDomainDNSSPF(source, i) ==
    LET spf == Property(Key("spf", "some"), source, Id(i, 22))
    IN  {{spf} \cup e : e \in Perhaps({Host("o"), Key("ipv4", "a1"), Key("cidr", "p1")},
                                      LAMBDA k : Tagged(k, By(spf), Id(i, 23)))}

parseDomainDNSDMARC(source, i) ==
    LET dmarc == Property(Key("dmarc", "some"), source, Id(i, 24))
    IN  {{dmarc} \cup m : m \in Perhaps(AnyMailbox, LAMBDA k : Node(k, By(dmarc), Id(i, 25)))}

parseDomainDNSTXT(source, i) ==
    parseDomainDNSSPF(source, i) \cup parseDomainDNSDMARC(source, i)
    \cup {{Property(Key("txt", "some"), source, Id(i, 26))}}

\* The exchange hangs below its record, or below the host if it has no priority.
parseDomainDNS(source, i) ==
    LET mx == Property(Key("mx", "some"), source, Id(i, 27))
    IN  {{}} \cup parseDomainDNSSimple(source, i) \cup parseDomainDNSTXT(source, i)
        \cup {{mx, Tagged(h, By(mx), Id(i, 28))} : h \in AnyHost}
        \cup {{Tagged(h, source, Id(i, 29))} : h \in AnyHost}

-----------------------------------------------------------------------------
(* Registration data *)

\* ParseEmails and ParsePhones: what is well formed, once each.
ParseEmails(source, i) == Perhaps(AnyMailbox, LAMBDA m : Node(m, source, Id(i, 40)))
ParsePhones(source, i) == Perhaps(KeysOf("phone", {"some"}), LAMBDA p : Node(p, source, Id(i, 41)))
ParseWhoisDates(source, i) == Facts(source, <<"date">>, i, 41)

emitContactNodes(contact) ==
    Join(Join(ParseEmails(contact, 3), ParsePhones(contact, 3)),
         {{}, {Node(Key("person", "some"), contact, Id(3, 43)),
               Property(Key("organization", "some"), contact, Id(3, 44)),
               Property(Key("address", "some"), contact, Id(3, 45))}})

\* The registrant of the target, say, is a node of its own.
addContact(root) ==
    LET contact == Node(Key("whois_registrant", "some"), root, Id(3, 46))
    IN  {{contact} \cup c : c \in emitContactNodes(By(contact))}

parseDomainWhois(root) ==
    ParseWhoisDates(root, 3) \cup Facts(root, <<"date", "status", "handle">>, 3, 50)
    \cup {{Tagged(h, root, Id(3, 54))} : h \in AnyHost} \cup addContact(root)

parseWhoisASN(root) ==
    LET asn == Node(Key("asn", "n1"), root, Id(4, 1))
    IN  Headed(asn, All(<<Facts(By(asn), <<"organization", "info">>, 4, 1),
                          Perhaps(KeysOf("cidr", {"p1"}), LAMBDA p : Node(p, By(asn), Id(4, 4))),
                          ParseWhoisDates(By(asn), 4)>>))

\* The organization of a network, if it has any, its prefix below it, and what is
\* known of the prefix, or of the organization or the target in its place.
parseWhoisNet(root, i) ==
    LET organization == Property(Key("organization", "some"), root, Id(i, 1))
        prefix(owner) == Node(Key("cidr", "p1"), owner, Id(i, 2))
        properties(of) == Join(Facts(of, <<"network", "description">>, i, 3), ParseWhoisDates(of, i))
        contacts(owner) == Join(ParseEmails(owner, i), ParsePhones(owner, i))
                           \cup Facts(owner, <<"address">>, i, 6)
                           \cup Perhaps(KeysOf("person", {"some"}), LAMBDA p : Node(p, owner, Id(i, 8)))
        network(owner) == Headed(prefix(owner), properties(By(prefix(owner))))
                          \cup properties(owner) \cup contacts(owner)
    IN  network(root) \cup {{organization} \cup n : n \in network(By(organization))}

\* The network of the address and one related to it.
parseIPWhois(root) ==
    parseWhoisASN(root) \cup Join(parseWhoisNet(root, 5), Facts(root, <<"organization">>, 6, 1))

-----------------------------------------------------------------------------
\* Domains that share the address, or once did, keep the type "domain".
parseNetlasDomains(root, i) ==
    Perhaps(KeysOf("domain", Hosts), LAMBDA h : Tagged(h, root, Id(i, 1)))

\* Vulnerabilities and indicators may tag the target.
Marked(found, k) == found \cup {addSystemTagToNode(f, k) : f \in found}

parseDomainResponse ==
    Marked({{Again(T)} \cup p : p \in parseSoftware(Root)}
           \cup {{Again(T)} \cup i : i \in parseIoCItem(Root)}, T)
    \cup {{Again(T)} \cup d : d \in Join(parseDomainDNS(Root, 7), parseNetlasDomains(Root, 8))}
    \cup {{Again(T)} \cup w : w \in parseDomainWhois(Root)}

\* Privacy, place and organization of an address.
parseIPPrivacy == Facts(ByValue(A), <<"tag", "geo", "organization">>, 10, 1)
parseIPPTR ==
    Perhaps(AnyHost, LAMBDA h : Tagged(h, ByValue(A), Id(11, 1))) \cup Facts(ByValue(A), <<"ptr">>, 11, 1)

parseIPResponse ==
    Marked({{Again(A)} \cup p : p \in parseSoftware(ByValue(A)) \cup parseIoCItem(ByValue(A))}, A)
    \cup {{Again(A)} \cup w : w \in parseIPWhois(ByValue(A))}
    \cup {{Again(A)} \cup n :
          n \in All(<<parseIPPrivacy, parseIPPTR, parseNetlasDomains(ByValue(A), 8)>>)}

\* Domains of the list below the target, each with its records below it. The target
\* may be among them, as may a domain twice.
emitDomainResults ==
    LET name(h, i) == Tagged(h, Root, Id(i, 1))
    IN  {{Again(T)} \cup n :
         n \in Join(UNION {Headed(name(h, 12), parseDomainDNS(By(name(h, 12)), 12)) : h \in {T, Host("w.t")}},
                    {{}} \cup UNION {Headed(name(h, 13), {{}} \cup parseDomainDNSSimple(By(name(h, 13)), 13)) :
                                     h \in {Host("w.t")}})}

NetlasOutputs ==
    Lookup("netlas_domain", T, parseDomainResponse)
    \cup Lookup("netlas_ip", A, parseIPResponse)
    \cup Lookup("netlas_download", T, emitDomainResults)
=============================================================================
