------------------------------ MODULE MCKadmin ------------------------------
(***************************************************************************)
(* Scenes of administration, small enough for TLC: password changes by two *)
(* processes, locked-down keys, names and lock counts, restricted          *)
(* administrators, and the calls of a connection; and, with nothing asked  *)
(* of kadmind, the file that it and the KDC keep the lockout records of    *)
(* two principals in.                                                      *)
(***************************************************************************)
EXTENDS Kadmin

R == "R"
Id(name) == <<<<name>>, R>>
Alice == Id("alice")
Bob == Id("bob")
Carol == Id("carol")
Admin == <<<<"bob", "admin">>, R>>
Helper == <<<<"eve", "helper">>, R>>

Etype1 == [etype |-> "aes256", salt |-> "normal"]
Etype2 == [etype |-> "aes128", salt |-> "normal"]
MCSupported == <<Etype1>>

Tok(t, a) == [token |-> t, arg |-> a]
Line(c, ops, t, rs) == [client |-> c, ops |-> ops, target |-> t, restrictions |-> rs]
MCAclLines ==
    <<Line(<<<<"*", "admin">>, R>>, <<"*", "e">>, {}, {}),
      Line(<<<<"*", "helper">>, R>>, <<"a", "m", "c">>, {<<<<"*">>, R>>},
           {<<Tok("-maxlife", 5), Tok("+flag", "PREAUTH"), Tok("-flag", "LOCKDOWN"), Tok("-policy", "std"), Tok("-expire", 2)>>})>>
MCAuthModules == <<"acl", "self">>
MCSiteDenies == {}
MCDefaultAttrs == {}
MCWords == {"word"}
MCHookRefuses == {}

Pw(t) == [text |-> t, length |-> 3, classes |-> 2]
NoEnt == [mask |-> {}, attrs |-> {}, policy |-> {}, expire |-> 0, pwexpire |-> 0, maxLife |-> 0, maxRlife |-> 0, kvno |-> 0]
Ent(mask, more) == [more @@ NoEnt EXCEPT !.mask = mask]
Req(op, actor, id) ==
    [op |-> op, actor |-> actor, id |-> id, to |-> id, pw |-> {}, ks |-> <<>>, keepold |-> FALSE,
     ent |-> NoEnt, initial |-> TRUE, changepw |-> FALSE, kvno |-> 0, given |-> <<>>,
     policy |-> "", rec |-> NoEnt, mask |-> {}, key |-> "", value |-> {}]

Key(kvno, secret, salt) == [kvno |-> kvno, etype |-> "aes256", secret |-> <<secret, salt>>, salt |-> Unsalted]
Person(id, rid, pw, attrs, policy) ==
    [NewRecord(id, <<Key(1, pw, <<"normal", id>>)>>, 0) EXCEPT !.rid = rid, !.attrs = attrs, !.policy = policy]
Std(depth) == [minLife |-> 1, maxLife |-> 0, minLength |-> 2, minClasses |-> 1, history |-> depth, keysalts |-> <<>>]
Store(people, pol) == [db |-> people, pol |-> pol, nextRid |-> 1003, fresh |-> 1]
HistoryRecord == [NewRecord(HistoryId, <<Key(2, "random", <<"random", <<0, 0>>>>)>>, 0) EXCEPT !.rid = 1000]

Quiet == [kadmind |-> {}, local |-> {}, logins |-> {}, messages |-> {}, numbers |-> {0}, requests |-> 0, kills |-> FALSE]

Cpw(op, actor, id, w) == [Req(op, actor, id) EXCEPT !.pw = {Pw(w)}]

(* Two processes set one principal's passwords and change its policy. *)
Passwords ==
    {[Quiet EXCEPT !.requests = 4,
        !.kadmind = {Cpw("cpw", Alice, Alice, "b"), Cpw("kpasswd", Alice, Alice, "a"), Cpw("kpasswd", Admin, Alice, "c"),
                     [Cpw("cpw", Admin, Alice, "a") EXCEPT !.keepold = TRUE]},
        !.local = {Cpw("cpw", Admin, Alice, "b"), Cpw("cpw", Admin, Alice, "word"), [Req("chrand", Admin, Alice) EXCEPT !.keepold = TRUE],
                   [Req("purgekeys", Admin, Alice) EXCEPT !.kvno = 0],
                   [Req("modpol", Admin, Alice) EXCEPT !.policy = "std", !.rec = Std(3), !.mask = {"history"}]}]
     @@ [store |-> Store((Alice :> Person(Alice, 1001, "a", {}, {"std"})) @@ h, "std" :> Std(2))]
        : h \in {<<>>, HistoryId :> HistoryRecord}}

(* Keys under LOCKDOWN_KEYS, with an alias. *)
Locked ==
    {[Quiet EXCEPT !.requests = 3,
        !.kadmind = UNION {{Req("delprinc", Admin, i), [Req("renprinc", Admin, i) EXCEPT !.to = Carol],
                            Cpw("cpw", Admin, i, "b"), Cpw("kpasswd", Admin, i, "b"), Req("chrand", Admin, i),
                            Req("extract", Admin, i),
                            [Req("setkey", Admin, i) EXCEPT !.given = <<Key(0, "random", <<7, 7>>)>>],
                            [Req("modprinc", Admin, i) EXCEPT !.ent = Ent({"attrs"}, [attrs |-> {}])],
                            [Req("modprinc", Helper, i) EXCEPT !.ent = Ent({"maxLife"}, [maxLife |-> 9])]} : i \in {Alice, Bob}},
        !.local = {[Req("modprinc", Admin, Alice) EXCEPT !.ent = Ent({"attrs"}, [attrs |-> b])] : b \in {{}, {"LOCKDOWN"}}}
                  \cup {[Req("addalias", Admin, Bob) EXCEPT !.to = Alice]}]
     @@ [store |-> Store((Alice :> Person(Alice, 1001, "a", a, {}))
                         @@ (Bob :> [NewRecord(Bob, <<>>, 0) EXCEPT !.alias = {Alice}]), "std" :> Std(1))]
        : a \in {{}, {"LOCKDOWN"}}}

(* Names come and go while the KDC counts failures. *)
Names ==
    {[Quiet EXCEPT !.requests = 5, !.kills = TRUE, !.logins = {Alice, Bob},
        !.kadmind = {[Req("renprinc", Admin, Alice) EXCEPT !.to = Bob], [Req("renprinc", Admin, Bob) EXCEPT !.to = Carol],
                     Req("delprinc", Admin, Bob), Cpw("addprinc", Admin, Alice, "n")},
        !.local = {Req("unlock", Admin, Bob)}]
     @@ [store |-> Store(Alice :> Person(Alice, 1001, "a", {}, {}), <<>>)]}

(* An administrator under restrictions, and other writes of policies. *)
Restraint ==
    {[Quiet EXCEPT !.requests = 3,
        !.kadmind = {[Req("addprinc", Helper, Carol) EXCEPT !.pw = w, !.ent = e]
                        : w \in {{}, {Pw("n")}},
                          e \in {NoEnt, Ent({"maxLife", "attrs"}, [maxLife |-> 9, attrs |-> {"LOCKDOWN"}]),
                                 Ent({"maxLife", "expire", "kvno"}, [maxLife |-> 2, expire |-> 1, kvno |-> 3])}}
                    \cup {[Req("modprinc", Helper, i) EXCEPT !.ent = Ent(m, [policy |-> {"free"}, kvno |-> 4, maxLife |-> 3])]
                            : i \in {Alice, Bob}, m \in {{"policy"}, {"policyClr"}, {"kvno", "fail"}, {}}}
                    \cup {[Req("setstr", Helper, Alice) EXCEPT !.key = "k", !.value = {"v"}],
                          [Req("getpol", Helper, Alice) EXCEPT !.policy = "std"], Req("getprinc", Alice, Alice),
                          Req("getstrs", Helper, Alice), [Req("listprincs", Admin, Alice) EXCEPT !.changepw = TRUE],
                          Req("listpols", Admin, Alice), [Req("addpol", Admin, Alice) EXCEPT !.policy = "new", !.rec = Std(2), !.mask = {"history"}],
                          [Req("delpol", Admin, Alice) EXCEPT !.policy = "new"]},
        !.local = {[Req("delpol", Admin, Alice) EXCEPT !.policy = "std"],
                   [Req("addpol", Admin, Alice) EXCEPT !.policy = "std", !.rec = Std(1), !.mask = {"minLength", "maxLife"}],
                   Cpw("addprinc", Admin, Carol, "c")}]
     @@ [store |-> Store((Alice :> Person(Alice, 1001, "a", {}, {}))
                         @@ (Bob :> [NewRecord(Bob, <<>>, 0) EXCEPT !.alias = {Alice}]), "std" :> [Std(1) EXCEPT !.maxLife = 4])]}

Msg(flavor, proc, token, seq) ==
    [flavor |-> flavor, proc |-> proc, token |-> token, seq |-> seq, bodySeq |-> seq, prog |-> "kadm",
     service |-> "privacy", sealed |-> TRUE, served |-> TRUE, acceptor |-> <<<<"kadmin", "admin">>, R>>]

(* What two clients, or one that connects again, sent on a connection. *)
Calls ==
    {[Quiet EXCEPT !.messages =
        {Msg("gss", "init", t, 0) : t \in {"t1", "t2"}} \cup {Msg("gss", "data", "t1", q) : q \in 1 .. 5}
        \cup {Msg("gss", "data", "t2", 1), Msg("gss", "destroy", "t1", 2), [Msg("gss", "data", "t1", 3) EXCEPT !.bodySeq = 2],
              [Msg("gss", "data", "t1", 6) EXCEPT !.served = FALSE], Msg("gss", "data", "t1", 9),
              [Msg("gss", "data", "t2", 2) EXCEPT !.sealed = FALSE], Msg("none", "data", "t1", 1)}]
     @@ [store |-> Store(<<>>, <<>>)],
     [Quiet EXCEPT !.numbers = {6}, !.messages =
        {Msg("agss", "init", t, 0) : t \in {"t1", "t2"}} \cup {Msg("agss", "data", "t1", q) : q \in {7, 1, 3}}
        \cup {Msg("agss", "destroy", "t1", 3), Msg("agss", "data", "t2", 7), [Msg("agss", "data", "t1", 1) EXCEPT !.bodySeq = 7]}]
     @@ [store |-> Store(<<>>, <<>>)]}

(* The lockout records' file alone. *)
SideFile == Quiet @@ [store |-> Store(<<>>, <<>>)]

MCScenes == Passwords \cup Locked \cup Names \cup Restraint \cup Calls \cup {SideFile}

-----------------------------------------------------------------------------
VARIABLES file, replaced, side, princ, fetched, writer, counted, stops  \* LockoutFile

fileVars == <<file, replaced, side, princ, fetched, writer, counted, stops>>

(* One rename of the file, and one kill or failed write. *)
Lf == INSTANCE LockoutFile WITH
    Kdcs <- {"kdc"}, Admins <- {"kadmind"}, Names <- {"a", "b"}, Cuts <- {"part"},
    MaxCount <- 2, MaxLines <- 2, MaxFiles <- 1, MaxStops <- 1, rows <- counted

MCInit == Init /\ Lf!Init

AdminScene == scene # SideFile /\ Next /\ UNCHANGED fileVars

FileScene == scene = SideFile /\ Lf!Next /\ UNCHANGED vars

MCNext == AdminScene \/ FileScene

MCSpec == MCInit /\ [][MCNext]_<<vars, fileVars>>

=============================================================================
