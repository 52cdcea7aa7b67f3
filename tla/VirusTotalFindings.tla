------------------------- MODULE VirusTotalFindings -------------------------
(***************************************************************************)
(* What modules/virustotal finds about a domain, an address and the files  *)
(* that talk to them.  Every result has a local id, and sources are named  *)
(* by it; what is found about the target has none.                         *)
(***************************************************************************)
EXTENDS Results

LOCAL A == Key("ipv4", "a1")

\* The property k below a source, with the host it names, if any, below it.
Naming(k, source, id, keys, of(_, _)) ==
    LET record == Property(k, source, id)
    IN  {{record}} \cup {{record, of(h, By(record))} : h \in keys}

-----------------------------------------------------------------------------
(* DNS records, of the target (source Root) or of a subdomain. *)

appendVTIPRecord(source, i) == {{Node(a, source, Id(i, 30))} : a \in AnyAddress}
appendVTCNAMEResult(source, i) == {{Tagged(h, source, Id(i, 31))} : h \in Others}
appendVTNSResult(source, i) == {{Tagged(h, source, Id(i, 32))} : h \in Others}

appendVTMXResults(source, i) ==
    Naming(Key("mx", "some"), source, Id(i, 33), Others, LAMBDA h, s : Tagged(h, s, Id(i, 34)))
appendVTSRVResults(source, i) ==
    Naming(Key("srv", "some"), source, Id(i, 35), Others, LAMBDA h, s : Tagged(h, s, Id(i, 36)))

\* The name server of a SOA record, and its mailbox.
appendVTSOAResults(source, i) ==
    LET soa == Property(Key("soa", "some"), source, Id(i, 37))
    IN  {{soa} \cup b : b \in Join({{}} \cup appendVTNSResult(By(soa), i),
                                   Perhaps({Email("m@o")}, LAMBDA m : Node(m, By(soa), Id(i, 38))))}

\* An SPF record names hosts and addresses, another text nothing.
buildVTSPFEntityResult(source, i) ==
    Perhaps({Host("o"), Key("ip", "a1")}, LAMBDA e : Tagged(e, source, Id(i, 40)))
appendVTTXTResult(source, i) ==
    LET spf == Property(Key("spf", "some"), source, Id(i, 39))
    IN  {{spf} \cup b : b \in buildVTSPFEntityResult(By(spf), i)}
        \cup {{Property(Key("txt", "some"), source, Id(i, 39))}}

appendVTCAAResults(source, i) ==
    LET caa == Property(Key("caa", "some"), source, Id(i, 41))
    IN  {{caa}, {caa, Tagged(Host("o"), By(caa), Id(i, 42))},
         {caa, Node(Email("m@o"), By(caa), Id(i, 42))}}

\* Types it does not know become properties of that name.
parseDNSRecord(source, i) ==
    appendVTIPRecord(source, i) \cup appendVTCNAMEResult(source, i)
    \cup appendVTNSResult(source, i) \cup appendVTMXResults(source, i)
    \cup appendVTSRVResults(source, i) \cup appendVTSOAResults(source, i)
    \cup appendVTTXTResult(source, i) \cup appendVTCAAResults(source, i)
    \cup {{Property(Key("other", "some"), source, Id(i, 43))}}

-----------------------------------------------------------------------------
(* Domains and addresses *)

\* A score below the entity, and the entity itself once more, tagged, at the root.
extractThreatScore(k, source, i) ==
    {{}, {Tagged(k, Root, Id(i, 50)), Property(Key("threat_score", "some"), source, Id(i, 51))}}

\* The names of a certificate; a name that is the target and no wildcard stands for
\* the target. Issuer and date hang below each of them, or else below the target.
appendVTCertificateSANs ==
    {{Tagged(h, Root, Id(7, IF h = T THEN 1 ELSE 2)) : h \in names} :
     names \in (SUBSET {T, Host("w.t"), Host("o")}) \ {{T, Host("w.t"), Host("o")}}}
appendDomainCertificateSummary ==
    LET below(source, n) == {Property(Key("cert_issuer", "some"), source, Id(7, n)),
                             Property(Key("cert_not_after", "some"), source, Id(7, n + 1))}
    IN  {sans \cup below(Root, 10) \cup UNION {below(By(r), 10 * r.lid) : r \in sans} :
         sans \in {s \in appendVTCertificateSANs : Cardinality({r.lid : r \in s}) = Cardinality(s)}}

\* What is said of the domain by name: categories, ranks, context and so on.
extractDomainMetadata ==
    All(<<Facts(Root, <<"tag", "category", "reputation", "rank", "jarm", "summary", "date">>, 1, 1),
          {{}} \cup parseDNSRecord(Root, 1),
          extractThreatScore(T, Root, 1)>>)
    \cup appendDomainCertificateSummary

\* A subdomain, which may be the target itself: its certificate's date and state,
\* its records and its score; its tags are given to the target.
extractSubdomain(i) ==
    LET deep(n) == Join({{}} \cup parseDNSRecord(By(n), i),
                           extractThreatScore(n.key, By(n), i))
        date(n) == Property(Key("cert_not_after", "some"), By(n), Id(i, 2))
        dated(n) ==
            All(<<{{date(n)}}, Facts(By(date(n)), <<"status">>, i, 3),
                  Facts(Root, <<"tag">>, i, 5), Facts(By(n), <<"date">>, i, 7)>>)
        name(h) == Tagged(h, Root, Id(i, 1))
    IN  UNION {Headed(name(h), deep(name(h)) \cup dated(name(h))) : h \in {T, Host("w.t")}}

\* A page of subdomains, which may repeat one.
extractSubdomains ==
    Join(extractSubdomain(1), Perhaps({T, Host("w.t")}, LAMBDA h : Tagged(h, Root, Id(2, 1))))

extractIPMetadata ==
    LET nodes == {Node(Key("asn", "n1"), ByValue(A), Id(1, 1)),
                  Node(Key("cidr", "p1"), ByValue(A), Id(1, 2))}
    IN  All(<<SUBSET nodes, Facts(ByValue(A), <<"tag", "organization", "geo", "jarm", "date">>, 1, 3),
              {{}, {Tagged(Key("ip", "a1"), ByValue(A), Id(1, 50)),
                    Property(Key("threat_score", "some"), ByValue(A), Id(1, 51))}}>>)
extractIPResolution == Pair(LAMBDA i : {{Tagged(h, ByValue(A), Id(i + 1, 1))} : h \in AnyHost})

-----------------------------------------------------------------------------
(* Communicating files *)

\* A property of a file with details below it: a rule that matched, a certificate.
Detailed(type, details, source, i, place) ==
    LET head == Property(Key(type, "some"), source, Id(i, place))
    IN  Headed(head, Facts(By(head), details, i, place))

appendFileYaraRules(file, i) ==
    Detailed("yara_rule", <<"description", "rule">>, By(file), i, 30)
appendFileSigmaRules(file, i) ==
    Detailed("sigma_rule", <<"description", "source", "match_context">>, By(file), i, 40)
extractIDSAlert(file, i) ==
    Detailed("ids_alert", <<"raw_rule", "source", "rule", "match_context">>, By(file), i, 50)
extractAndroguardCertificates(file, i) ==
    Detailed("cert_fingerprint", <<"cert_issuer", "cert_not_after">>, By(file), i, 60)
extractX509Certificates(file, i) ==
    Detailed("cert_fingerprint", <<"cert_issuer", "cert_not_after", "status">>, By(file), i, 70)

\* The score hangs below the file; a bad one reports the file again, tagged, with an
\* id of its own.
appendFileThreatScore(file, i) ==
    {{}, {Property(Key("threat_score", "some"), By(file), Id(i, 80)),
          [file EXCEPT !.tagged = TRUE, !.lid = Id(i, 81)]}}

\* Single facts, each group of them from one part of the response.
appendFileHashes(file, i) ==
    Facts(By(file), <<"file_hash", "date", "pdb_path", "file_name">>, i, 1)
appendFileInfo(file, i) == Facts(By(file), <<"file_info", "file_magic", "date">>, i, 1)
extractFileMetaParts(file, i) == Facts(By(file), <<"file_meta">>, i, 4)
extractFileAnalyzerParts(file, i) == Facts(By(file), <<"file_analyzer">>, i, 5)
extractBundleInfoParts(file, i) == Facts(By(file), <<"password", "bundle_info">>, i, 6)
appendFileDebInfo(file, i) == Facts(By(file), <<"file_name", "date", "package_info">>, i, 1)
extractDebScripts(file, i) == Facts(By(file), <<"date", "file_script">>, i, 4)
appendFileThreatClassification(file, i) == Facts(By(file), <<"threat_type", "category">>, i, 6)
appendFileMalwareConfig(file, i) ==
    Facts(By(file), <<"malware_config", "tag", "sandbox_verdict", "reputation">>, i, 8)

fileFacts(file, i) ==
    appendFileHashes(file, i) \cup appendFileInfo(file, i)
    \cup Join(extractFileMetaParts(file, i),
              Join(extractFileAnalyzerParts(file, i), extractBundleInfoParts(file, i)))
    \cup Join(appendFileDebInfo(file, i), extractDebScripts(file, i))
    \cup Join(appendFileThreatClassification(file, i), appendFileMalwareConfig(file, i))

\* What is said of a file. Two items of a page may be the same file.
extractCommunicatingFile(k) ==
    LET file(i, v) == Property(Key("file_hash", v), ByValue(k), Id(i, 20))
        details(f, i) ==
            fileFacts(f, i)
            \cup Join(appendFileThreatScore(f, i),
                      Join(appendFileYaraRules(f, i), appendFileSigmaRules(f, i)))
            \cup Join(extractIDSAlert(f, i),
                      Join(extractAndroguardCertificates(f, i), extractX509Certificates(f, i)))
    IN  Join(Headed(file(1, "f1"), details(file(1, "f1"), 1)),
             UNION {Headed(file(2, v), appendFileThreatScore(file(2, v), 2)) : v \in {"f1", "f2"}})

-----------------------------------------------------------------------------
VirusTotalOutputs ==
    Lookup("virustotal_domain", T, extractDomainMetadata \cup extractSubdomains)
    \cup Lookup("virustotal_ip", A, Join(extractIPMetadata, extractIPResolution))
    \cup Lookup("virustotal_files", A, extractCommunicatingFile(A))
=============================================================================
