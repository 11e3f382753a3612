----------------------------- MODULE GuiConfig -----------------------------
(***************************************************************************)
(* How the web GUI saves the configuration of an instance, and obtains the *)
(* certificates it names on the way: the routes PUT config and POST        *)
(* letsencrypt (src/FerrumGUI/src/index.ts), configManager.ts, and certbot *)
(* behind a firewall whose port 80 is opened for the challenge.            *)
(*                                                                         *)
(* A job is a request in flight; each of its steps ends where the handler  *)
(* awaits a file or a child process, so jobs interleave there.  The host   *)
(* is a Linux one: elsewhere a certificate is refused at once.  A failing  *)
(* step answers 500, which ends the job.  The broadcast that follows the   *)
(* writing of the file belongs to ConfigPage.                              *)
(***************************************************************************)
EXTENDS Common, Sequences, FiniteSetsExt

CONSTANTS
    Job,
    Domain,         \* names that LETS_ENCRYPT_DOMAIN_PATTERN accepts
    Draft,          \* the configurations a browser sends
    Index,          \* the listeners named to the letsencrypt route
    Requested,      \* the domain lists sent to the letsencrypt route
    Firewalls,      \* the tools `which` finds, in the order in which they are tried
    AdminRules,     \* the sets of tools whose port 80 the administrator may have opened
    MaxRules        \* bound: rules for port 80 one tool can hold

\* A domain as typed: a name, a blank one or one the pattern refuses, and whether a dot ends it.
Entry == [name : Domain \cup {"blank", "bad"}, dot : BOOLEAN]

Plain(name) == [name |-> name, dot |-> FALSE]

\* The administrator has rules only in tools that are installed.
ASSUME GuiConfigAssumption ==
    /\ IsFiniteSet(Job) /\ MaxRules \in Nat \ {0}
    /\ Firewalls \in Seq(STRING) /\ \A set \in AdminRules : set \subseteq Range(Firewalls)

VARIABLES
    conf,       \* config.yml
    job,        \* the handler of each request in flight
    certs,      \* /etc/letsencrypt/live: the names on the certificate of each directory
    rules,      \* how many rules of each tool let port 80 in
    admin,      \* the tools in which the administrator had such a rule
    uncleaned   \* history: the tools in which a clean-up failed

configVars == <<conf, job, certs, rules, admin, uncleaned>>
host == <<certs, rules, admin, uncleaned>>

Idle == [pc |-> "idle"]

Tools == Range(Firewalls)

ConfigInit ==
    /\ conf \in {d \in Draft : d.listeners # <<>> /\ ~d.listeners[1].auto}
    /\ job = [j \in Job |-> Idle]
    /\ certs = [d \in Domain |-> {}]
    /\ admin \in AdminRules /\ uncleaned = {}
    /\ rules = [t \in Tools |-> IF t \in admin THEN 1 ELSE 0]

-----------------------------------------------------------------------------
(* Domains and configurations.                                             *)

Distinct(s) ==
    LET seen[n \in 0 .. Len(s)] == IF n = 0 THEN <<>>
                                   ELSE IF s[n] \in Range(seen[n - 1]) THEN seen[n - 1]
                                   ELSE Append(seen[n - 1], s[n])
    IN  seen[Len(s)]

NotBlank(entries) == SelectSeq(entries, LAMBDA e : e.name # "blank")

normalizeLetsEncryptDomains(entries) ==
    LET kept == NotBlank(entries) IN Distinct([n \in DOMAIN kept |-> kept[n].name])

validateLetsEncryptDomains(names) == names # <<>> /\ Range(names) \subseteq Domain

ConfiguredDomains(l) ==
    normalizeLetsEncryptDomains(IF l.list # <<>> THEN l.list ELSE <<l.single>>)

certificateCoversDomains(held, names) == Range(names) \subseteq held

\* What validate says of the fields no property tells apart is the field "sound".
validate(config) ==
    /\ config.sound
    /\ \A l \in Range(config.listeners) :
           l.auto => l.single.name # "blank" \/ NotBlank(l.list) # <<>>

\* Saving keeps a final dot that the request for a certificate would drop.
sanitize(config) ==
    [config EXCEPT !.listeners =
        [n \in DOMAIN @ |-> [@[n] EXCEPT !.list = Distinct(NotBlank(@))]]]

WithCertificate(l, names) ==
    [l EXCEPT !.single = Plain(names[1]), !.cert = names[1],
              !.list = [n \in DOMAIN names |-> Plain(names[n])]]

-----------------------------------------------------------------------------
(* The saving of a configuration.                                          *)

Handler(kind, config) ==
    [pc |-> "write", kind |-> kind, config |-> config, n |-> 0, names |-> <<>>,
     tool |-> 0, changed |-> FALSE, ok |-> TRUE, due |-> IF kind = "put" THEN None ELSE conf.endpoint]

\* provisionConfiguredCertificates, from the listener after the n-th on.
Provision(h) ==
    LET todo == {k \in DOMAIN h.config.listeners :
                    k > h.n /\ h.config.listeners[k].enabled /\ h.config.listeners[k].auto}
        k == Min(todo)
        names == ConfiguredDomains(h.config.listeners[k]) IN
    IF todo = {} THEN [h EXCEPT !.pc = "write"]
    ELSE IF ~validateLetsEncryptDomains(names) THEN Idle
    ELSE [h EXCEPT !.pc = "check", !.n = k, !.names = names]

\* Certificates come before the file that names them.
ProvisionFirst(h) == Provision(h)

PutConfig(j, draft) ==
    LET config == IF draft.shared THEN [draft EXCEPT !.listeners = <<>>] ELSE draft IN
    /\ job[j] = Idle /\ validate(config)
    /\ job' = [job EXCEPT ![j] = ProvisionFirst(Handler("put", config))]
    /\ UNCHANGED <<conf, host>>

\* POST letsencrypt for the n-th listener.
PostLetsEncrypt(j, n, entries) ==
    LET names == normalizeLetsEncryptDomains(entries) IN
    /\ job[j] = Idle /\ validateLetsEncryptDomains(names)
    /\ job' = [job EXCEPT ![j] = [Handler("letsencrypt", conf) EXCEPT
                                     !.pc = "check", !.n = n, !.names = names]]
    /\ UNCHANGED <<conf, host>>

LatestConfig_remembered(h) == h.config
LatestConfig(h) == conf

\* The rest of that route, once there is a certificate.
ReadConfig(j) ==
    LET h == job[j]
        config == LatestConfig(h) IN
    /\ h.pc = "read"
    /\ job' = [job EXCEPT ![j] =
           IF h.n \notin DOMAIN config.listeners THEN Idle
           ELSE [h EXCEPT !.pc = "write",
                          !.config = [config EXCEPT !.listeners[h.n] =
                              [WithCertificate(@, h.names) EXCEPT !.enabled = TRUE, !.auto = TRUE]]]]
    /\ UNCHANGED <<conf, host>>

\* Whoever has yet to read the file owes it the configuration written last.
WriteConfig(j) ==
    /\ job[j].pc = "write"
    /\ conf' = sanitize(job[j].config)
    /\ job' = [i \in Job |-> IF i = j THEN Idle
                             ELSE IF job[i].pc \in {"idle", "write"} \/ job[i].kind = "put" THEN job[i]
                             ELSE [job[i] EXCEPT !.due = conf'.endpoint]]
    /\ UNCHANGED host

WriteFails(j) ==
    /\ job[j].pc = "write" /\ job' = [job EXCEPT ![j] = Idle]
    /\ UNCHANGED <<conf, host>>

-----------------------------------------------------------------------------
(* ensureLetsEncryptCertificate.                                           *)

\* There is a certificate: on with the next listener, or with the route.
Certified(h) ==
    LET done == [h EXCEPT !.tool = 0, !.changed = FALSE] IN
    IF h.kind = "letsencrypt" THEN [done EXCEPT !.pc = "read"]
    ELSE Provision([done EXCEPT !.config.listeners[h.n] = WithCertificate(@, h.names)])

CheckCertificate(j) ==
    LET h == job[j]
        held == certs[h.names[1]] IN
    /\ h.pc = "check"
    /\ job' = [job EXCEPT ![j] =
           IF held # {} /\ certificateCoversDomains(held, h.names) THEN Certified(h)
           ELSE [h EXCEPT !.pc = "inspect", !.tool = 1]]
    /\ UNCHANGED <<conf, host>>

Tool(h) == Firewalls[h.tool]
Exhausted(h) == h.tool > Len(Firewalls)

Goes(j, h) == job' = [job EXCEPT ![j] = h] /\ UNCHANGED conf

FindsRule(h) == rules[Tool(h)] > 0

\* For iptables a failed look at the rules is the same as finding none.
FindsNoRule(h) == rules[Tool(h)] = 0 \/ Tool(h) = "iptables"

\* prepareHttp01Firewall, one tool at a time.  ufw or firewalld may be inactive, or fail.
Inspect(j) ==
    LET h == job[j] IN
    /\ h.pc = "inspect"
    /\ \/ Exhausted(h) /\ Goes(j, [h EXCEPT !.pc = "certbot"])
       \/ ~Exhausted(h) /\ FindsRule(h) /\ Goes(j, [h EXCEPT !.pc = "certbot"])
       \/ ~Exhausted(h) /\ FindsNoRule(h) /\ Goes(j, [h EXCEPT !.pc = "open"])
       \/ ~Exhausted(h) /\ Tool(h) # "iptables" /\ Goes(j, [h EXCEPT !.tool = @ + 1])
    /\ UNCHANGED host

\* ufw and firewalld keep one rule however often it is added, iptables as many as it is told.
OpenPort(j) ==
    LET h == job[j] IN
    /\ h.pc = "open" /\ rules[Tool(h)] < MaxRules
    /\ rules' = [rules EXCEPT ![Tool(h)] = IF Tool(h) = "iptables" THEN @ + 1 ELSE 1]
    /\ Goes(j, [h EXCEPT !.pc = "certbot", !.changed = TRUE])
    /\ UNCHANGED <<certs, admin, uncleaned>>

OpenFails(j) ==
    LET h == job[j] IN
    /\ h.pc = "open"
    /\ Goes(j, IF Tool(h) = "iptables" THEN Idle
               ELSE [h EXCEPT !.pc = "inspect", !.tool = @ + 1])
    /\ UNCHANGED host

CleanUp_afterSuccess(h) == h.changed /\ h.ok
CleanUp(h) == h.changed

\* certbot issues the certificate, fails, or claims success and leaves no files.
Certbot(j) ==
    \E outcome \in {"issued", "nothing", "failed"} :
        LET h == [job[j] EXCEPT !.ok = outcome # "failed"] IN
        /\ job[j].pc = "certbot"
        /\ certs' = IF outcome = "issued" THEN [certs EXCEPT ![h.names[1]] = Range(h.names)] ELSE certs
        /\ Goes(j, [h EXCEPT !.pc = IF CleanUp(h) THEN "close" ELSE "files"])
        /\ UNCHANGED <<rules, admin, uncleaned>>

\* cleanup: a failure is only warned about.
ClosePort(j) ==
    LET h == job[j] IN
    /\ h.pc = "close"
    /\ \/ rules[Tool(h)] > 0 /\ rules' = [rules EXCEPT ![Tool(h)] = @ - 1] /\ UNCHANGED uncleaned
       \/ uncleaned' = uncleaned \cup {Tool(h)} /\ UNCHANGED rules
    /\ Goes(j, [h EXCEPT !.pc = "files"])
    /\ UNCHANGED <<certs, admin>>

CheckFiles(j) ==
    LET h == job[j] IN
    /\ h.pc = "files"
    /\ Goes(j, IF h.ok /\ certs[h.names[1]] # {} THEN Certified(h) ELSE Idle)
    /\ UNCHANGED host

Step(j) ==
    \/ CheckCertificate(j) \/ Inspect(j) \/ OpenPort(j) \/ OpenFails(j)
    \/ Certbot(j) \/ ClosePort(j) \/ CheckFiles(j)
    \/ ReadConfig(j) \/ WriteConfig(j) \/ WriteFails(j)

ConfigNext ==
    \E j \in Job :
        \/ \E draft \in Draft : PutConfig(j, draft)
        \/ \E n \in Index, entries \in Requested : PostLetsEncrypt(j, n, entries)
        \/ Step(j)

ConfigSpec == ConfigInit /\ [][ConfigNext]_configVars

-----------------------------------------------------------------------------

\* Each variable has its type, and a request is only where the loop over the firewall tools of
\* prepareHttp01Firewall lets it be: none opens or closes a port with no tool left to try, and
\* the mark that one has opened a port does not outlast the certificate it was opened for.
ConfigTypeOK ==
    /\ conf.endpoint \in {d.endpoint : d \in Draft}
    /\ \A l \in Range(conf.listeners) : l.single \in Entry /\ Range(l.list) \subseteq Entry
    /\ \A j \in Job : job[j] # Idle =>
           /\ job[j].pc \in {"check", "inspect", "open", "certbot", "close", "files", "read", "write"}
           /\ job[j].pc \in {"open", "close"} => ~Exhausted(job[j])
           /\ job[j].changed => job[j].pc \in {"certbot", "close", "files"}
    /\ certs \in [Domain -> SUBSET Domain] /\ rules \in [Tools -> 0 .. MaxRules]
    /\ admin \subseteq Tools /\ uncleaned \subseteq Tools

\* The proxy reloads config.yml as soon as it changes: whatever request wrote it, and
\* whatever failed on the way, a listener that is to have a certificate has its files
\* (provisionConfiguredCertificates before configManager.write).
CertificateBeforeSave ==
    \A l \in Range(conf.listeners) :
        l.enabled /\ l.auto => l.list # <<>> /\ certs[l.list[1].name] # {}

\* Port 80 stays open for the administrator who opened it before: no clean-up of a
\* request takes that rule away, also when an inspection failed or two requests met.
AdminRuleKept == \A t \in admin : rules[t] > 0

\* When no request is in flight the firewall is as it was, also after requests that
\* failed or overlapped (the finally of ensureLetsEncryptCertificate); only a clean-up
\* that failed itself leaves something behind.
FirewallRestored ==
    (\A j \in Job : job[j] = Idle) =>
        \A t \in Tools \ uncleaned : rules[t] = (IF t \in admin THEN 1 ELSE 0)

\* A certificate takes a minute, and someone may save meanwhile.  The letsencrypt route
\* reads the file after it has the certificate, so it does not write back a
\* configuration older than the one saved during that minute.
SavedMeanwhileKept ==
    \A j \in Job : job[j].pc = "write" /\ job[j].kind = "letsencrypt" =>
        job[j].config.endpoint = job[j].due

\* The configuration that is written is sound: the types, its certificates exist, and it
\* is no older than what was saved during the provisioning.
ConfigSound == ConfigTypeOK /\ CertificateBeforeSave /\ SavedMeanwhileKept

\* The firewall is left as the administrator had it: their rule never goes, the temporary
\* ones do.
FirewallKept == AdminRuleKept /\ FirewallRestored
=============================================================================
