------------------------------ MODULE Routing ------------------------------
(***************************************************************************)
(* From a chat request to the body sent upstream: the capabilities it      *)
(* needs, the model that is chosen for it, and the messages that model is  *)
(* given. Nothing here has a state of its own; a request is asked and the  *)
(* routing answers, whatever the registry holds at that moment.            *)
(*                                                                         *)
(* The text of a message is the sequence of the texts it was made of: the  *)
(* number of the message it came in with, and 0 for the operator's default *)
(* prompt. Content in parts may hold an image.                             *)
(***************************************************************************)
EXTENDS Naturals, SequencesExt, InOrder

CONSTANTS Registries,    \* listings a request may meet: sequences of models
          Names,         \* what a caller may put in "model"
          Roles,
          MaxMessages

\* A listing is in the order of its places, and an id is the key of its model.
ASSUME RegistryAssumption ==
    /\ MaxMessages \in Nat
    /\ \A models \in Registries :
          /\ DOMAIN models \subseteq Nat
          /\ \A i, j \in DOMAIN models : models[i].id = models[j].id => i = j

SystemRoles == {"system", "developer"}
Forms == {"text", "blank", "image"}

VARIABLES asked, candidates, selection, upstream

routingVars == <<asked, candidates, selection, upstream>>

\* A request to an endpoint; one to /v1/embeddings has no conversation.
Asking(endpoint, name, messages, tools, signals) ==
    [endpoint |-> endpoint, model |-> name, messages |-> messages,
     tools |-> tools, signals |-> signals]
Embedding(name) == Asking("embeddings", name, <<>>, FALSE, {})
Unasked == Asking("none", "none", <<>>, FALSE, {})

RoutingInit ==
    /\ asked = Unasked /\ candidates = <<>>
    /\ selection = [ok |-> FALSE, code |-> "none"]
    /\ upstream = <<>>

\* Mutant of RequiredCapabilities: an image in the content is not looked for.
RequiredCapabilities_TextOnly(request) ==
    {IF request.endpoint = "embeddings" THEN "embeddings" ELSE "chat"}
    \cup {c \in {"tools"} : request.tools}

\* requiredCapabilities: from the endpoint and the shape of the request alone.
RequiredCapabilities(request) ==
    {IF request.endpoint = "embeddings" THEN "embeddings" ELSE "chat"}
    \cup {c \in {"vision"} : \E i \in DOMAIN request.messages :
                                  request.messages[i].form = "image"}
    \cup {c \in {"tools"} : request.tools}

HasAllCapabilities(model, required) == required \subseteq model.capabilities

\* isComplex: one signal is enough (length, wording, code, several questions).
IsComplex(request) == request.signals # {}

\* find: the first in the order of the listing, of those at some of its places.
FirstAt(models, places) == models[Min(places)]
OfClass(models, places, class) == {i \in places : models[i].modelClass = class}

\* Mutant of PickByClass: a fast model is preferred for every request.
PickByClass_Fast(models, eligible, complex) ==
    IF OfClass(models, eligible, "fast") # {} THEN FirstAt(models, OfClass(models, eligible, "fast"))
    ELSE FirstAt(models, eligible)

PickByClass(models, eligible, complex) ==
    LET large == OfClass(models, eligible, "large")
        fast == OfClass(models, eligible, "fast")
    IN  IF complex /\ large # {} THEN FirstAt(models, large)
        ELSE IF fast # {} THEN FirstAt(models, fast)
        ELSE FirstAt(models, eligible)

Refused(code) == [ok |-> FALSE, code |-> code]
Chosen(model) == [ok |-> TRUE, model |-> model]

SelectExplicit(name, models, required) ==
    LET named == {i \in DOMAIN models : models[i].id = name} IN
    IF named = {} THEN Refused("model_not_found")
    ELSE IF ~HasAllCapabilities(FirstAt(models, named), required) THEN Refused("capability_mismatch")
    ELSE Chosen(FirstAt(models, named))

SelectAuto(request, models, required) ==
    LET eligible == {i \in DOMAIN models : HasAllCapabilities(models[i], required)}
    IN  IF eligible = {} THEN Refused("capability_mismatch")
        ELSE Chosen(PickByClass(models, eligible, IsComplex(request)))

SelectModel(request, models) ==
    LET required == RequiredCapabilities(request)
    IN  IF request.model = "auto" THEN SelectAuto(request, models, required)
        ELSE SelectExplicit(request.model, models, required)

-----------------------------------------------------------------------------
(* The body sent upstream.                                                 *)

IsSystem(m) == m.role \in SystemRoles

\* filter: the messages at some of the places, in their order.
FilteredAt(messages, places) ==
    [k \in 1..Cardinality(places) |-> messages[InOrder(places)[k]]]

OfOthers(messages) == FilteredAt(messages, {i \in DOMAIN messages : ~IsSystem(messages[i])})

\* The preamble is the texts of the system messages joined. A message has one text,
\* and a blank one none; but two of them are not empty even if both are blank, for
\* the separator is there.
Instructions(messages) == {i \in DOMAIN messages : IsSystem(messages[i]) /\ messages[i].text # <<>>}
Preamble(messages) ==
    [k \in 1..Cardinality(Instructions(messages)) |->
        FilteredAt(messages, Instructions(messages))[k].text[1]]
HasPreamble(messages) ==
    \/ Preamble(messages) # <<>>
    \/ Cardinality({i \in DOMAIN messages : IsSystem(messages[i])}) > 1

\* Mutant of MergeSystem: the turn is replaced, not extended.
MergeSystem_Replaces(messages) ==
    LET rest == OfOthers(messages)
        asTurn == [role |-> "user", form |-> "text", text |-> Preamble(messages)]
    IN  IF ~HasPreamble(messages) THEN messages
        ELSE <<asTurn>> \o (IF rest = <<>> THEN rest ELSE Tail(rest))

\* mergeSystemIntoFirstUser. The turn it is put into becomes text, whatever form
\* it had.
MergeSystem(messages) ==
    LET rest == OfOthers(messages)
        turns == {i \in DOMAIN rest : rest[i].role = "user"}
        first == CHOOSE i \in turns : \A j \in turns : i <= j
        asTurn == [role |-> "user", form |-> "text", text |-> Preamble(messages)]
    IN  IF ~HasPreamble(messages) THEN messages
        ELSE IF turns = {} THEN <<asTurn>> \o rest
        ELSE [rest EXCEPT ![first] = [asTurn EXCEPT !.text = @ \o rest[first].text]]

\* buildChatRequestBody: the operator's prompt is a default, which any text of
\* the caller's own in its place overrides.
CallerSetPrompt(messages) ==
    \E i \in DOMAIN messages : IsSystem(messages[i]) /\ messages[i].form # "blank"

BuildMessages(model, messages) ==
    LET given == IF model.prompt /\ ~CallerSetPrompt(messages)
                 THEN <<[role |-> "system", form |-> "text", text |-> <<0>>]>> \o messages
                 ELSE messages
    IN  IF model.mode = "merge" THEN MergeSystem(given) ELSE given

Message(role, form, i) ==
    [role |-> role, form |-> form, text |-> IF form = "blank" THEN <<>> ELSE <<i>>]

\* The handlers of /v1/embeddings and of /v1/chat/completions up to the
\* placement, and the dry run of the latter.
Ask ==
    /\ asked = Unasked
    /\ \E name \in Names :
       \/ asked' = Embedding(name)
       \/ \E n \in 1..MaxMessages, tools \in BOOLEAN, signals \in {{}, {"long"}} :
          \E roles \in [1..n -> Roles], forms \in [1..n -> Forms] :
             asked' = Asking("chat", name, [i \in 1..n |-> Message(roles[i], forms[i], i)],
                             tools, signals)
    /\ candidates' \in Registries
    /\ UNCHANGED <<selection, upstream>>

Route ==
    /\ asked # Unasked
    /\ selection = Refused("none")
    /\ selection' = SelectModel(asked, candidates)
    /\ upstream' = IF selection'.ok /\ asked.endpoint = "chat"
                   THEN BuildMessages(selection'.model, asked.messages)
                   ELSE <<>>
    /\ UNCHANGED <<asked, candidates>>

RoutingNext == Ask \/ Route
RoutingSpec == RoutingInit /\ [][RoutingNext]_routingVars

-----------------------------------------------------------------------------

\* A routed request gets what it needs and what it named, or the class it calls
\* for if any eligible model has that class; a request is refused for want of a
\* capability only if nothing it could have been given has them all.
SelectionAsPromised ==
    LET required == RequiredCapabilities(asked)
        listed == {candidates[i] : i \in DOMAIN candidates}
        eligible == {m \in listed : required \subseteq m.capabilities /\ asked.model \in {"auto", m.id}}
        wanted == {m \in eligible : m.modelClass = IF IsComplex(asked) THEN "large" ELSE "fast"}
    IN  selection # Refused("none") =>
          IF selection.ok
          THEN /\ selection.model \in eligible
               /\ asked.model = "auto" /\ wanted # {} => selection.model \in wanted
          ELSE /\ eligible = {}
               /\ selection.code = "model_not_found" <=>
                     asked.model \notin {"auto"} \cup {m.id : m \in listed}

\* Where messages have a text, and which; and what is read before what.
Said(messages) == UNION {{i} \X DOMAIN messages[i].text : i \in DOMAIN messages}
TextAt(messages, p) == messages[p[1]].text[p[2]]
Before(p, q) == p[1] < q[1] \/ (p[1] = q[1] /\ p[2] < q[2])

\* The model is given the caller's own instructions, or the operator's if it gave
\* none, never both and never neither, and all of the conversation; each text
\* once, the instructions in their order and the conversation in its own; and
\* where the template has no system role, nothing in that role.
InstructionsKept ==
    selection.ok /\ asked.endpoint = "chat" =>
      LET messages == asked.messages
          default == selection.model.prompt /\ ~CallerSetPrompt(messages)
          instruction(t) == t = 0 \/ IsSystem(messages[t])
      IN  /\ {TextAt(upstream, p) : p \in Said(upstream)} =
                {t \in DOMAIN messages : messages[t].text # <<>>} \cup {t \in {0} : default}
          /\ \A p, q \in Said(upstream) :
                LET t == TextAt(upstream, p)
                    u == TextAt(upstream, q)
                IN  /\ t = u => p = q
                    /\ Before(p, q) /\ (instruction(t) <=> instruction(u)) => t < u
          /\ selection.model.mode = "merge" =>
                \A i \in DOMAIN upstream : IsSystem(upstream[i]) => upstream[i].text = <<>>

=============================================================================
