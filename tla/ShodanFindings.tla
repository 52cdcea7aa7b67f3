--------------------------- MODULE ShodanFindings ---------------------------
(***************************************************************************)
(* What modules/shodan finds: an address in the free database and in the   *)
(* full one with its banners, and the DNS records kept for a domain. Every *)
(* result has a local id; a source is named by it, or is the target.       *)
(***************************************************************************)
EXTENDS Results

LOCAL A == Key("ipv4", "a1")
LOCAL At == ByValue(A)

-----------------------------------------------------------------------------
(* Addresses *)

\* A host name, or its text if it is none.
appendReverseIPHostnameResult(i) ==
    Perhaps(AnyHost, LAMBDA h : Tagged(h, At, Id(i, 1))) \cup Facts(At, <<"ptr">>, i, 1)

\* Known vulnerabilities tag the address itself.
Vulnerable == {{}, {Tagged(A, At, Id(9, 9))}}

parseInternetDBResponse ==
    {n \cup p : n \in appendReverseIPHostnameResult(1),
                p \in Join(Facts(At, <<"port", "tag", "cve", "cpe">>, 1, 2), Vulnerable)}

extractIPDomains == Perhaps(AnyHost, LAMBDA h : Tagged(h, At, Id(2, 1)))
extractIPASN == Perhaps(KeysOf("asn", {"n1", ""}), LAMBDA k : Node(k, At, Id(2, 2)))
extractIPProperties == Facts(At, <<"tag", "organization", "isp", "os", "date">>, 2, 2)

\* A banner's port, or the address if it has none.
extractBannerPort(i) == {{}, {Property(Key("port", "some"), At, Id(i, 1))}}

\* The service and, below it or in its place, the web server.
extractBannerServiceAndWeb(port, i) ==
    LET service == Property(Key("service", "some"), port, Id(i, 2))
    IN  {{}, {service}, {Property(Key("web_server", "some"), port, Id(i, 3))},
         {service, Property(Key("web_server", "some"), By(service), Id(i, 3))}}

\* What software hangs below: the service or web server at the port, else the port.
Software(head, port) ==
    LET at == {r \in head : r.source = port}
    IN  IF at = {} THEN port ELSE By(CHOOSE r \in at : TRUE)

extractBannerCPEs(source, i) == Facts(source, <<"cpe", "cpe23">>, i, 3)
extractBannerVulns(source, i) ==
    LET cve == Property(Key("cve", "c1"), source, Id(i, 6))
        verified == Property(Key("verified", "some"), By(cve), Id(i, 7))
    IN  Headed(cve, {{verified} \cup s :
                     s \in Facts(By(cve), <<"summary", "cvss", "epss", "rank_epss">>, i, 7)})

\* Names of the certificate hang at the root, each with issuer, date and versions.
parseSubjectAltName(host, i) == Tagged(host, At, Id(i, 12))
appendSubjectAltNameMetadata(name, i) ==
    Facts(name, <<"cert_issuer", "cert_not_after", "tls_versions">>, i, 12)
extractBannerSSL(port, i) ==
    Join(Each(AnyHost, LAMBDA h : parseSubjectAltName(h, i),
              LAMBDA n : appendSubjectAltNameMetadata(n, i)),
         Facts(port, <<"cert_fingerprint", "jarm">>, i, 16))

\* What else hangs below the port, or below the software.
extractBannerRest(port, software, i) ==
    {a \cup b : a \in Facts(port, <<"hash", "banner_timestamp">>, i, 18),
                b \in Facts(software, <<"heartbleed">>, i, 20)}

\* One banner, with one of its parts in full.
extractIPBanners(i) ==
    UNION {LET port == IF p = {} THEN At ELSE By(CHOOSE r \in p : TRUE)
           IN  UNION {{p \cup s \cup b :
                       b \in extractBannerCPEs(Software(s, port), i)
                             \cup extractBannerVulns(Software(s, port), i)
                             \cup extractBannerRest(port, Software(s, port), i)} :
                      s \in extractBannerServiceAndWeb(port, i)}
               \cup {p \cup b : b \in extractBannerSSL(port, i)} :
           p \in extractBannerPort(i)}

\* Two banners may name the same vulnerability, on different ports.
parseShodanAPIIP ==
    Join(extractIPBanners(3), Vulnerable)
    \cup Join(All(<<extractIPDomains, extractIPASN, extractIPProperties>>),
              appendReverseIPHostnameResult(1))

-----------------------------------------------------------------------------
(* DNS records, of the domain (source Root) or of a subdomain *)

\* A property, with at most one host, or mailbox, below it.
Record(type, source, i, keys, of(_, _)) ==
    LET record == Property(Key(type, "some"), source, Id(i, 20))
    IN  {{record} \cup n : n \in Perhaps(keys, LAMBDA k : of(k, By(record)))}

appendShodanIPResult(source, i) == {{Node(a, source, Id(i, 20))} : a \in AnyAddress}
appendShodanCNAMEResult(source, i) == {{Tagged(h, source, Id(i, 20))} : h \in Others}
appendShodanNSResult(source, i) == {{Tagged(h, source, Id(i, 20))} : h \in Others}
appendShodanMXResult(source, i) ==
    Record("mx", source, i, Others, LAMBDA h, r : Tagged(h, r, Id(i, 21)))
appendShodanSRVResult(source, i) ==
    Record("srv", source, i, Others, LAMBDA h, r : Tagged(h, r, Id(i, 21)))
appendShodanHIPResult(source, i) ==
    Record("hip", source, i, Others, LAMBDA h, r : Tagged(h, r, Id(i, 21)))
appendShodanURIResult(source, i) ==
    Record("uri", source, i, KeysOf("url", {"some"}), LAMBDA u, r : Property(u, r, Id(i, 21)))
appendShodanCAAResult(source, i) ==
    Record("caa", source, i, {Host("o")}, LAMBDA h, r : Tagged(h, r, Id(i, 21)))
    \cup Record("caa", source, i, AnyMailbox, LAMBDA m, r : Node(m, r, Id(i, 21)))

\* SPF names hosts and addresses, DMARC mailboxes; other texts nothing.
buildShodanSPFEntityResult(k, spf, i) == Tagged(k, spf, Id(i, 21))
appendShodanTXTResult(source, i) ==
    Record("spf", source, i, {Host("o")} \cup AnyAddress,
           LAMBDA k, r : buildShodanSPFEntityResult(k, r, i))
    \cup Record("dmarc", source, i, AnyMailbox, LAMBDA m, r : Node(m, r, Id(i, 21)))
    \cup {{Property(Key("txt", "some"), source, Id(i, 20))}}

\* The serial number hangs below the record, and is of its type.
appendShodanSOAResults(source, i) ==
    LET soa == Property(Key("soa", "some"), source, Id(i, 20))
        serial == Property(Key("soa", "serial"), By(soa), Id(i, 21))
    IN  {{soa} \cup s : s \in All(<<{{}, {serial}},
                                  Perhaps({Host("o")}, LAMBDA h : Tagged(h, By(soa), Id(i, 22))),
                                  Perhaps({Email("m@o")}, LAMBDA m : Node(m, By(soa), Id(i, 23)))>>)}

appendShodanRPResult(source, i) ==
    LET rp == Property(Key("rp", "some"), source, Id(i, 20))
    IN  {{rp} \cup s : s \in Join(Perhaps(AnyMailbox, LAMBDA m : Node(m, By(rp), Id(i, 21))),
                                  Perhaps({Host("o")}, LAMBDA h : Tagged(h, By(rp), Id(i, 22))))}

\* Service, expression and its target one below the other, all but the last of one
\* type, and the replacement below the service, or the record in its place.
appendShodanNAPTRResult(source, i) ==
    LET naptr == Property(Key("naptr", "some"), source, Id(i, 20))
        service == Property(Key("naptr", "service"), By(naptr), Id(i, 21))
        regexp(of) == Property(Key("naptr", "regexp"), of, Id(i, 22))
        url(of) == Property(Key("url", "some"), By(regexp(of)), Id(i, 23))
        rest(of) == Join({{}, {regexp(of)}, {regexp(of), url(of)}},
                         Perhaps({Host("o")}, LAMBDA h : Tagged(h, of, Id(i, 24))))
    IN  {{naptr} \cup r : r \in rest(By(naptr))}
        \cup {{naptr, service} \cup r : r \in rest(By(service))}

appendShodanGenericDNSResult(source, i) == {{Property(Key("other", "some"), source, Id(i, 20))}}

processShodanDNSRecord(source, i) ==
    appendShodanIPResult(source, i) \cup appendShodanCNAMEResult(source, i)
    \cup appendShodanMXResult(source, i) \cup appendShodanNSResult(source, i)
    \cup appendShodanSOAResults(source, i) \cup appendShodanTXTResult(source, i)
    \cup appendShodanSRVResult(source, i) \cup appendShodanCAAResult(source, i)
    \cup appendShodanURIResult(source, i) \cup appendShodanNAPTRResult(source, i)
    \cup appendShodanRPResult(source, i) \cup appendShodanHIPResult(source, i)
    \cup appendShodanGenericDNSResult(source, i)

\* The record's subdomain is reported with every record, but not the target itself
\* unless as a wildcard, and not what is no host name, whose records hang at the
\* target.
appendShodanSubdomain(i) == {{}} \cup {{Tagged(h, Root, Id(i, 1))} : h \in {T, Host("w.t")}}
processShodanDomainRecord(i) ==
    UNION {LET source == IF name = {} THEN Root ELSE By(CHOOSE n \in name : TRUE)
           IN  {name \cup r : r \in {{}} \cup processShodanDNSRecord(source, i)} :
           name \in appendShodanSubdomain(i)}

\* The last day of each type and value, below the first such record; a record that
\* gave no result has its day below the target.
appendShodanLastSeenResults(found, i) ==
    LET records == {r \in found : r.lid = Id(i, 20)}
        date(source) == Property(Key("date", "some"), source, Id(i, 40))
    IN  found \cup (IF records = {} THEN {date(Root)} ELSE {date(By(r)) : r \in records})

\* Two records of the same subdomain, the second one an address.
parseShodanAPIDomain ==
    {f \cup s : f \in Join(Facts(Root, <<"tag">>, 1, 1),
                          processShodanDomainRecord(2)
                          \cup {appendShodanLastSeenResults(r, 2) : r \in processShodanDomainRecord(2)}),
                s \in {{}, {Tagged(Host("w.t"), Root, Id(3, 1)),
                            Node(Address("a1"), Ref(Host("w.t"), Id(3, 1)), Id(3, 20))}}}

ShodanOutputs ==
    Lookup("shodan_internetdb", A, parseInternetDBResponse)
    \cup Lookup("shodan_api_ip", A, parseShodanAPIIP)
    \cup Lookup("shodan_api_domain", T, parseShodanAPIDomain)
=============================================================================
