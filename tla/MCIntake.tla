-------------------------------- MODULE MCIntake --------------------------------
(***************************************************************************)
(* Intake with every small address, text, combination of settings and way  *)
(* through the proxies, one dimension or two at a time.                    *)
(***************************************************************************)
EXTENDS Intake, TLC

UpTo(S, n) == UNION {[1..k -> S] : k \in 0..n}

SomeHosts == {<<"localhost">>}

SomeIPs == {"10.0.0.1", "10.0.0.2"}

Number(n) == [is |-> "number", n |-> n]
Unset     == [is |-> "unset", n |-> 0]
Junk      == [is |-> "junk", n |-> 0]

Plain == [MAIL_TRANSPORT |-> <<>>, MAIL_ENCRYPTION |-> <<>>, CONTACT_RECIPIENT |-> <<"to">>,
          MAIL_FROM_ADDRESS |-> <<"from">>, MAIL_FROM_NAME |-> <<>>, CONTACT_WIKI_NAME |-> <<>>,
          CONTACT_ALLOWED_EMAIL_DOMAIN |-> <<>>, CONTACT_ALLOWED_SENDERS |-> {<<>>},
          MAIL_HOST |-> <<"host">>, MAIL_USERNAME |-> <<>>, MAIL_PASSWORD |-> <<>>,
          MS_TENANT_ID |-> <<>>,
          MS_CLIENT_ID |-> <<>>, MS_CLIENT_SECRET |-> <<>>, MS_SENDER_UPN |-> <<>>,
          AGENTMAIL_API_KEY |-> <<>>, AGENTMAIL_INBOX |-> <<>>,
          CONTACT_INTAKE_GITHUB_TOKEN |-> <<"key">>, CONTACT_GITHUB_REPO |-> <<"repo">>,
          CONTACT_RATE_LIMIT_PER_HOUR |-> Unset, CONTACT_GLOBAL_RATE_LIMIT_PER_HOUR |-> Unset,
          CONTACT_GITHUB_DAILY_CAP |-> Unset, CONTACT_TRUST_PROXY |-> <<>>,
          CONTACT_TRUSTED_PROXY_HOPS |-> Unset, CONTACT_SECURE_COOKIE |-> <<>>]

Direct == [client |-> "10.0.0.1", own |-> <<>>, proxies |-> <<>>]

Ann  == <<"ann", "@", "vu">>
Form == [type |-> <<"bug">>, name |-> <<"x">>, email |-> Ann, page |-> <<>>,
         summary |-> <<"x">>, details |-> <<>>]

Cases(environments, routes, forms) ==
  [environment : environments, route : routes, form : forms]

\* Every combination of what the transports need.
MailCases ==
  Cases({[Plain EXCEPT !.MAIL_TRANSPORT = transport, !.CONTACT_RECIPIENT = to,
                       !.MAIL_FROM_ADDRESS = from, !.MAIL_HOST = host, !.MS_TENANT_ID = tenant,
                       !.MS_CLIENT_ID = id, !.MS_CLIENT_SECRET = secret, !.MS_SENDER_UPN = upn,
                       !.AGENTMAIL_API_KEY = secret, !.AGENTMAIL_INBOX = id] :
           transport \in {<<>>, <<"graph">>, <<"agentmail">>, <<"pigeon">>},
           to \in {<<>>, <<"to">>}, from \in {<<>>, <<"from">>}, host \in {<<>>, <<"host">>},
           tenant \in {<<>>, <<"t">>}, id \in {<<>>, <<"i">>}, secret \in {<<>>, <<"s">>},
           upn \in {<<>>, <<"u">>}},
        {Direct}, {Form})

\* Every combination of what SMTP needs, the login included.
LoginCases ==
  Cases({[Plain EXCEPT !.CONTACT_RECIPIENT = to, !.MAIL_FROM_ADDRESS = from, !.MAIL_HOST = host,
                       !.MAIL_ENCRYPTION = encryption, !.MAIL_USERNAME = user,
                       !.MAIL_PASSWORD = password] :
           to \in {<<>>, <<"to">>}, from \in {<<>>, <<"from">>},
           host \in {<<>>, <<"host">>, <<"localhost">>},
           encryption \in {<<>>, <<"TLS">>, <<"none">>, <<"ssl">>},
           user \in {<<>>, <<"u">>}, password \in {<<>>, <<"p">>}},
        {Direct}, {Form})

\* Every number of hops, every switch and every way.
ProxyCases ==
  Cases({[Plain EXCEPT !.CONTACT_TRUST_PROXY = trust, !.CONTACT_TRUSTED_PROXY_HOPS = hops,
                       !.CONTACT_SECURE_COOKIE = secure] :
           trust \in {<<>>, <<"TRUE">>, <<"yes">>}, secure \in {<<>>, <<"1">>},
           hops \in {Unset, Junk, Number(0), Number(-1), Number(1), Number(2), Number(3)}},
        [client : SomeIPs, own : UpTo(SomeIPs \cup {"junk"}, 2), proxies : UpTo(SomeIPs, 3)],
        {Form})

\* Every other number that validate looks at.
NumberCases ==
  Cases({[Plain EXCEPT !.CONTACT_RATE_LIMIT_PER_HOUR = rate,
                       !.CONTACT_GLOBAL_RATE_LIMIT_PER_HOUR = global,
                       !.CONTACT_GITHUB_DAILY_CAP = cap, !.MAIL_ENCRYPTION = encryption] :
           rate \in {Unset, Number(0), Number(5)}, global \in {Unset, Number(0), Number(5)},
           cap \in {Unset, Number(0), Number(5)}, encryption \in {<<>>, <<"TLS">>, <<"ssl">>}},
        {Direct}, {Form})

\* Every address under every policy.
AddressCases ==
  Cases({[Plain EXCEPT !.CONTACT_ALLOWED_EMAIL_DOMAIN = policy[1],
                       !.CONTACT_ALLOWED_SENDERS = policy[2]] :
           policy \in {<< <<>>, {<<>>} >>, << <<"VU">>, {<<>>} >>,
                       << <<"vu">>, {<<>>, <<" ", "Ann", "@", "not">>} >>}},
        {Direct},
        {[Form EXCEPT !.email = email, !.type = <<" ", "BUG">>] :
           email \in UpTo({"ann", "Ann", "@", "VU", "not", "\n"}, 4)})

\* Every text in every field and in every setting that goes into a header.
SomeTexts == UpTo({"bt", "x", "\n", "\r"}, 4) \cup UpTo({"E", " ", "bt"}, 4)

TextCases ==
  Cases({Plain}, {Direct},
        {[Form EXCEPT !.details = long, !.summary = short, !.page = short] :
           long \in SomeTexts, short \in UpTo({"bt", "\n", "E"}, 1)})

SettingCases ==
  Cases({[Plain EXCEPT !.CONTACT_RECIPIENT = text, !.MAIL_FROM_ADDRESS = text,
                       !.MAIL_FROM_NAME = text, !.CONTACT_WIKI_NAME = text] :
           text \in UpTo({"x", "\n", "\r", "E"}, 3)},
        {Direct},
        {[Form EXCEPT !.summary = text, !.name = text] : text \in UpTo({"x", "\n", "bt"}, 2)})

SomeCases ==
  <<MailCases, LoginCases, ProxyCases, NumberCases, AddressCases, TextCases, SettingCases>>
=============================================================================
