--------------------------- MODULE HunterFindings ---------------------------
(***************************************************************************)
(* What modules/hunterio finds about a domain: facts, mailboxes with their *)
(* owners and the pages they were seen on, and linked domains. Values are  *)
(* passed on as they come, a mailbox may be malformed or missing.          *)
(***************************************************************************)
EXTENDS Results

appendDomainProperties == Facts(Root, <<"organization", "email_pattern", "info">>, 1, 1)
appendAPIErrorResult == Facts(Root, <<"info">>, 1, 1)

appendEmailProperties(email, i) == Facts(email, <<"confidence_score", "verification_status">>, i, 2)

\* The profile belongs to the person, or to the mailbox if there is no name.
appendProfileData(owner, i) ==
    {{}, {Property(Key("position", "some"), owner, Id(i, 5)),
          Tagged(Key("url", "u1"), owner, Id(i, 6)),
          Node(Key("phone", "some"), owner, Id(i, 7))}}

\* The mutant has the profile of a person without a name hang below a person anyway.
appendPersonAnyway(email, i) == appendProfileData(By(Node(Key("person", ""), email, Id(i, 8))), i)
appendPersonData(email, i) ==
    LET person == Node(Key("person", "some"), email, Id(i, 8))
    IN  {{person} \cup p : p \in appendProfileData(By(person), i)} \cup appendProfileData(email, i)

\* A page below the group of sources, with its domain and dates below it; or only the
\* domain.
appendSourceWithURI(group, i) ==
    LET page == Node(Key("url", "u1"), group, Id(i, 10))
    IN  {{page} \cup p : p \in Join(Perhaps(KeysOf("domain", {"t", "o", "bad"}), LAMBDA d :
                                              Tagged(d, By(page), Id(i, 11))),
                                    Facts(By(page), <<"date", "status">>, i, 11))}
appendSources(email, i) ==
    LET group == Node(Key("source", email.key.value), email, Id(i, 14))
        domain == Tagged(Key("domain", "o"), By(group), Id(i, 11))
    IN  Headed(group, {{}, {domain}} \cup appendSourceWithURI(By(group), i))

\* A mailbox with all that is said of it.
extractEmailEntry(m, i) ==
    LET email == Node(Email(m), Root, Id(i, 1))
    IN  {{email} \cup e : e \in Join(appendEmailProperties(By(email), i),
                                     appendPersonData(By(email), i) \cup appendSources(By(email), i))}

\* A mailbox, well formed or not; two mailboxes, of the same person or seen on the
\* same page.
extractEmails ==
    LET second == Node(Email("n@t"), Root, Id(3, 1))
        more == {{}} \cup appendPersonData(By(second), 3) \cup appendSources(By(second), 3)
    IN  UNION {extractEmailEntry(m, 2) : m \in Mailboxes \cup {"bad", ""}}
        \cup {e \cup {second} \cup s : e \in extractEmailEntry("m@o", 2), s \in more}

linkedDomains == {{Tagged(Key("domain", d), Root, Id(4, 1))} : d \in {"t", "o", "bad"}}

HunterOutputs ==
    Lookup("hunterio", T, appendDomainProperties \cup extractEmails
                          \cup linkedDomains \cup appendAPIErrorResult)
=============================================================================
