------------------------ MODULE RegistrationFindings ------------------------
(***************************************************************************)
(* What modules/whois and modules/domainsbycerts find: the registration of *)
(* a domain, whose registrar, registrant and roles are nodes that exist    *)
(* only as anchors of what hangs below them, and names in certificates.    *)
(***************************************************************************)
EXTENDS Results

\* hasContactData, in brief: organisation and address, and a person, phone or mailbox,
\* all below the anchor; a mailbox that cannot be parsed is left out.
contact(anchor, i) ==
    Join(Facts(By(anchor), <<"organization", "address">>, i, 1),
         Perhaps({Key("person", "p"), Key("phone", "p"), Email("n@t")}, LAMBDA k :
                 Node(k, By(anchor), Id(i, 5))))

\* A role ("Abuse Contact of t") is a node below its anchor; the registrar's and the
\* registrant's own data hang below the anchor itself.
appendContact(anchor, role, i) ==
    IF role = "" THEN contact(anchor, i)
    ELSE LET node == Node(Key(role, "t"), By(anchor), Id(i, 9))
         IN  Headed(node, contact(node, i))

getRegistrantAnchor == Node(Key("whois_registrant", "t"), Root, Id(1, 20))
getRegistrarAnchor == Node(Key("whois_registrar", "t"), Root, Id(2, 20))

\* The registrar's URL and number; the server, tagged, which may be the target;
\* and, below the target, dates and states, and its name servers.
buildWhoisServerResult(anchor) ==
    Perhaps({Host("t"), Host("o")}, LAMBDA h : Tagged(h, By(anchor), Id(2, 40)))
buildMetadataResults ==
    All(<<Facts(Root, <<"dnssec", "date", "status">>, 5, 1),
          Perhaps({Host("t"), Host("w.t")}, LAMBDA h : Tagged(h, Root, Id(5, 10))),
          Facts(Root, <<"handle">>, 6, 1)>>)

\* An anchor is made when there is something to hang below it.
buildResults ==
    LET registrar ==
            All(<<appendContact(getRegistrarAnchor, "", 2),
                  appendContact(getRegistrarAnchor, "whois_abuse", 3),
                  Facts(By(getRegistrarAnchor), <<"url", "iana_id">>, 2, 30)>>)
        server ==
            Join(Facts(By(getRegistrarAnchor), <<"iana_id">>, 2, 30),
                 buildWhoisServerResult(getRegistrarAnchor))
        registrant ==
            Join(appendContact(getRegistrantAnchor, "", 1),
                 appendContact(getRegistrantAnchor, "whois_admin", 4))
    IN  Headed(getRegistrarAnchor, registrar)
        \cup Headed(getRegistrarAnchor, server)
        \cup Headed(getRegistrantAnchor, registrant)
        \cup buildMetadataResults
        \cup {a \cup b : a \in Headed(getRegistrarAnchor, server),
                         b \in Headed(getRegistrantAnchor, {{}})}

-----------------------------------------------------------------------------
(* Certificates *)

\* The date until which the certificate of a node is valid, and whether it is over.
expiry(of, i) ==
    LET date == Property(Key("cert_not_after", "some"), By(of), Id(i, 2))
    IN  Headed(date, Facts(By(date), <<"status">>, i, 2))

\* A wildcard gives the name below it, which may be the target.
appendSubdomainResults ==
    Pair(LAMBDA i : UNION {LET name == Tagged(Key("subdomain", h), Root, Id(i, 1))
                           IN  {{name} \cup e : e \in expiry(name, i)} :
                           h \in {"t", "w.t"}})

appendEmailResults ==
    UNION {LET mailbox == Tagged(m, Root, Id(3, 1))
           IN  {{mailbox} \cup e : e \in expiry(mailbox, 3)} : m \in AnyMailbox}

formatResults ==
    All(<<Facts(Root, <<"cert_not_after", "expired_subdomains">>, 4, 1),
          appendSubdomainResults, {{}} \cup appendEmailResults>>)

RegistrationOutputs ==
    Lookup("get_whois", T, buildResults) \cup Lookup("domainsbycerts", T, formatResults)
=============================================================================
