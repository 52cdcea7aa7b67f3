---------------------------- MODULE DnsFindings -----------------------------
(***************************************************************************)
(* What the functions of modules/dns find in up to two records. Almost all *)
(* make a property of the record and hang below it, by type and value,     *)
(* what is named in the record.  The text of a record is one of Lines; a   *)
(* part of it (an algorithm, a hash, a service) one of Parts: the parts of *)
(* two different records may be equal.                                     *)
(***************************************************************************)
EXTENDS Results

Lines == {"line1", "line2"}
Parts == {"part1", "part2"}

\* Record i, found as the property k of the target, with one of the sets of
\* further results that below(k) gives.
Record(type, i, below(_)) ==
    UNION {{{Property(k, Root, Id(i, 1))} \cup b : b \in below(ByValue(k))} :
           k \in KeysOf(type, Lines)}

Records(type) == Pair(LAMBDA i : Record(type, i, LAMBDA s : {{}}))

\* Records that name a host, tagged for the functions that follow it.
NamingHosts(type, hosts) ==
    Pair(LAMBDA i : Record(type, i, LAMBDA s :
        Perhaps(hosts, LAMBDA h : Tagged(h, s, Id(i, 2)))))

-----------------------------------------------------------------------------
getIPData == Pair(LAMBDA i : {{Node(a, Root, Id(i, 1))} : a \in AnyAddress})

getNSData == Pair(LAMBDA i : {{Tagged(h, Root, Id(i, 1))} : h \in Others})

\* Of the name, and of "www." before it, which may be an alias of the name.
getCNAMEData ==
    Join(Perhaps(Others, LAMBDA h : Tagged(h, Root, Id(1, 1))),
         Perhaps(AnyHost, LAMBDA h : Tagged(h, Root, Id(2, 1))))

getMXData == NamingHosts("mx", Others)
getSRVData == NamingHosts("srv", Others)
getHIPData == NamingHosts("hip", Others)

\* The gateway is not compared with the target.
getIPSECKEYData == NamingHosts("ipseckey", AnyHost \cup AnyAddress)

\* issue names a host, iodef a mailbox.
getCAAData ==
    Pair(LAMBDA i : Record("caa", i, LAMBDA s :
        Perhaps(Others, LAMBDA h : Tagged(h, s, Id(i, 2))) \cup
        Perhaps(AnyMailbox, LAMBDA m : Node(m, s, Id(i, 2)))))

\* Only the first record that can be parsed.
getSOAData ==
    {{}} \cup Record("soa", 1, LAMBDA s :
        {{Property(Key("soa", "part1"), s, Id(1, 2))} \cup b :
         b \in Join(Perhaps(Others, LAMBDA h : Tagged(h, s, Id(1, 3))),
                    Perhaps(AnyMailbox, LAMBDA m : Node(m, s, Id(1, 4))))})

getDMARCData ==
    Pair(LAMBDA i : Record("dmarc", i, LAMBDA s :
        Perhaps(AnyMailbox, LAMBDA m : Node(m, s, Id(i, 2)))))

\* SPF records name hosts and addresses, other texts nothing.
getTXTData ==
    Pair(LAMBDA i :
        Record("spf", i, LAMBDA s :
            Perhaps(Others \cup AnyAddress, LAMBDA e : Tagged(e, s, Id(i, 2)))) \cup
        Record("txt", i, LAMBDA s : {{}}))

getHINFOData ==
    Pair(LAMBDA i : Record("hinfo", i, LAMBDA s :
        Join(Perhaps(KeysOf("hinfo", Parts), LAMBDA cpu : Property(cpu, s, Id(i, 2))),
             Perhaps(KeysOf("hinfo", Parts), LAMBDA os : Property(os, s, Id(i, 3))))))

getRPData ==
    Pair(LAMBDA i : Record("rp", i, LAMBDA s :
        Join(Perhaps(AnyMailbox, LAMBDA m : Node(m, s, Id(i, 2))),
             Perhaps(Others, LAMBDA h : Tagged(h, s, Id(i, 3))))))

\* Hints are not validated by the function.
getSVCBData ==
    Pair(LAMBDA i : Record("svcb", i, LAMBDA s :
        Join(Perhaps(KeysOf("ipv4", Addresses \cup Malformed),
                     LAMBDA hint : Node(hint, s, Id(i, 2))),
             Perhaps(KeysOf("svcb", Parts), LAMBDA alpn : Property(alpn, s, Id(i, 3))))))

getURIData ==
    Pair(LAMBDA i : Record("uri", i, LAMBDA s :
        Perhaps(KeysOf("url", Parts), LAMBDA url : Property(url, s, Id(i, 2)))))

\* Below the record its service, and below that, or below the record if it names
\* no service, the regular expression with its URL, and the replacement. The
\* service is referred to by its value.
getNAPTRData ==
    LET service(s, i) == Perhaps(KeysOf("naptr", Parts), LAMBDA v : Property(v, s, Id(i, 2)))
        regexp(s, i) ==
            {{}, {Property(Key("naptr", "regexp"), s, Id(i, 3))},
             {Property(Key("naptr", "regexp"), s, Id(i, 3)),
              Property(Key("url", "part1"), ByValue(Key("naptr", "regexp")), Id(i, 4))}}
        host(s, i) == Perhaps(Others, LAMBDA h : Tagged(h, s, Id(i, 5)))
        below(s, i) ==
            UNION {LET at == IF v = {} THEN s ELSE ByValue((CHOOSE r \in v : TRUE).key)
                   IN  {v \cup b : b \in Join(regexp(at, i), host(at, i))} :
                   v \in service(s, i)}
    IN  Pair(LAMBDA i : Record("naptr", i, LAMBDA s : below(s, i)))

\* The owner of an NSEC record, unless it is the target itself (a wildcard is its
\* parent, and tagged); below it, or below the target, the record, which starts with
\* the name of its owner; below that the next owner. An NSEC3 record has hashes.
getNSECData ==
    LET line(owner) == CASE owner = {} -> "t NSEC"
                         [] owner = {Host("t")} -> "*.t NSEC"
                         [] owner = {Host("o")} -> "o NSEC"
                         [] OTHER -> "w.t NSEC"
        record(owner) == Key("nsec", line(owner))
        nsec(owner, i) ==
            {{Tagged(h, Root, Id(i, 1)) : h \in owner}
                 \cup {Property(record(owner),
                                IF owner = {} THEN Root ELSE ByValue(CHOOSE h \in owner : TRUE),
                                Id(i, 2))}
                 \cup next :
             next \in Perhaps(AnyHost, LAMBDA h : Tagged(h, ByValue(record(owner)), Id(i, 3)))}
        nsec3(i) ==
            Record("nsec", i, LAMBDA s :
                Join(Perhaps(KeysOf("nsec", Parts), LAMBDA h : Property(h, s, Id(i, 2))),
                     Perhaps(KeysOf("nsec", Parts), LAMBDA h : Property(h, s, Id(i, 3)))))
    IN  Pair(LAMBDA i : UNION {nsec(owner, i) : owner \in {{}} \cup {{h} : h \in AnyHost}})
        \cup Pair(nsec3)

\* Functions that only make a property of each record.
getCERTData == Records("cert")
getDKIMData == Records("dkim")
getDNSKEYData == Records("dnskey")
getDomainKeyData == Records("domainkey")
getDSData == Records("ds")
getLOCData == Records("loc")
getSSHFPData == Records("sshfp")
getTLSAData == Records("tlsa")

-----------------------------------------------------------------------------
\* handlePreflightDNS: the zone is broken, or it is not.
handlePreflightDNS ==
    {{Property(Key("status", "broken"), Root, Id(1, 1)), Tagged(T, Root, Id(1, 2))},
     {Tagged(T, Root, Id(1, 1))}}

handlers ==
    [get_ip |-> getIPData, check_wildcard |-> getIPData, get_ns |-> getNSData,
     get_cname |-> getCNAMEData, get_mx |-> getMXData, get_srv |-> getSRVData,
     get_hip |-> getHIPData, get_ipseckey |-> getIPSECKEYData, get_caa |-> getCAAData,
     get_soa |-> getSOAData, get_dmarc |-> getDMARCData, get_txt |-> getTXTData,
     get_hinfo |-> getHINFOData, get_rp |-> getRPData, get_svcb |-> getSVCBData,
     get_uri |-> getURIData, get_naptr |-> getNAPTRData, get_nsec |-> getNSECData,
     get_cert |-> getCERTData, get_dkim |-> getDKIMData, get_dnskey |-> getDNSKEYData,
     get_domainkey |-> getDomainKeyData, get_ds |-> getDSData, get_loc |-> getLOCData,
     get_sshfp |-> getSSHFPData, get_tlsa |-> getTLSAData,
     preflight_dns |-> handlePreflightDNS]

\* trustedTaggingFuncs
trusted == {"get_ip", "get_cname", "get_mx", "get_txt", "get_srv", "get_cert", "get_tlsa",
            "get_sshfp", "get_svcb", "get_uri", "get_naptr", "get_loc", "get_hinfo",
            "get_hip", "get_ipseckey", "get_rp", "get_dkim"}

\* applyOSINTTags: what has records is alive; what has no name is dead.
applyOSINTTags(fn, results) ==
    IF fn \in trusted /\ results # {}
    THEN results \cup {Tagged(T, Root, Id(3, 1))} ELSE results

DnsOutputs(fn) ==
    {Output(fn, T, applyOSINTTags(fn, results), FALSE) : results \in handlers[fn]} \cup
    IF fn \in trusted THEN {Output(fn, T, {Tagged(T, Root, Id(3, 1))}, TRUE)} ELSE {}
=============================================================================
