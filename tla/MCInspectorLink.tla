--------------------------- MODULE MCInspectorLink ---------------------------
(* Messages of one to five octets, around one and two packets.  Between them the
   contents hold every kind of message, and for each what may be missing from it
   or be wrong with it. *)
EXTENDS InspectorLink

MCMessages == {<<"a">>, <<"b", "c">>, <<"d", "e", "f">>, <<"g", "h", "i", "j">>,
               <<"k", "l", "m", "n", "o">>}

(* Two keys may spell one number. *)
MCNumber == "1" :> 1 @@ "0x1" :> 1 @@ "2" :> 2 @@ "3" :> 3

Str(s) == [type |-> "string", value |-> s]
Uint(n) == [type |-> "uint", value |-> n]
Blob(d) == [type |-> "data", value |-> d]
Dict(f) == [type |-> "dict", value |-> f]
Empty == Dict(<<>>)

Msg(selector, args) == Dict("__selector" :> Str(selector) @@ "__argument" :> args)

Means(plist, call) == [plist |-> plist, meant |-> {call}]
Wrong(plist) == [plist |-> plist, meant |-> {}]

(* The arguments, as the comments of rpc.c show them. *)
AppId(a) == "WIRApplicationIdentifierKey" :> Str(a)
Name(n) == "WIRApplicationNameKey" :> Str(n)
Host(a) == "WIRHostApplicationIdentifierKey" :> Str(a)
Apps(f) == Dict("WIRApplicationDictionaryKey" :> Dict(f))
Page(n) == "WIRPageIdentifierKey" :> Uint(n)
Connection(c) == "WIRConnectionIdentifierKey" :> Str(c)
Listing(f) == Dict(AppId("safari") @@ "WIRListingKey" :> Dict(f))
Sent(data) == Dict(AppId("safari") @@ "WIRDestinationKey" :> Str("client")
                   @@ "WIRMessageDataKey" :> data)

AppList(f) == Msg("_rpc_reportConnectedApplicationList:", Apps(f))
Connected(f) == Msg("_rpc_applicationConnected:", Dict(f))
Disconnected(f) == Msg("_rpc_applicationDisconnected:", Dict(f))
SentListing(f) == Msg("_rpc_applicationSentListing:", Listing(f))
SentData(d) == Msg("_rpc_applicationSentData:", Sent(d))
Updated(f) == Msg("_rpc_applicationUpdated:", Dict(f))

App(a, names) == [id |-> a, name |-> names]
Listed(pages) == [on |-> "applicationSentListing", appId |-> "safari", pages |-> pages]
PageOf(n, connections) == [id |-> n, connection |-> connections]

MCContents == <<
  [m \in MCMessages |->
     CASE Len(m) = 1 -> Means(Msg("_rpc_reportSetup:", Empty), [on |-> "reportSetup"])
       [] Len(m) = 2 ->
            Means(SentListing("1" :> Dict(Page(1) @@ Connection("other"))
                              @@ "0x1" :> Dict(Page(1)) @@ "2" :> Dict(Page(2))),
                  Listed("1" :> PageOf(1, {"other"})
                         @@ "0x1" :> PageOf(1, {}) @@ "2" :> PageOf(2, {})))
       [] Len(m) = 3 -> Wrong(SentListing("1" :> Dict(Page(2)) @@ "2" :> Dict(Page(2))))
       [] Len(m) = 4 ->
            Means(AppList("safari" :> Dict(AppId("safari") @@ Name("Safari"))
                          @@ "web" :> Dict(AppId("web"))),
                  [on |-> "reportConnectedApplicationList",
                   apps |-> {App("safari", {"Safari"}), App("web", {})}])
       [] OTHER -> Wrong(AppList("safari" :> Dict(AppId("safari"))
                                 @@ "web" :> Dict(AppId("safari"))))],
  [m \in MCMessages |->
     CASE Len(m) = 1 -> Means(SentData(Blob("text")),
                              [on |-> "applicationSentData", destination |-> "client",
                               data |-> "text"])
       [] Len(m) = 2 -> Wrong(SentData(Str("text")))
       [] Len(m) = 3 -> Means(Updated(AppId("web") @@ Host("safari")),
                              [on |-> "applicationUpdated", appId |-> "web"])
       [] Len(m) = 4 -> Means(Updated(AppId("web") @@ Name("Safari")),
                              [on |-> "applicationUpdated", appId |-> "web"])
       [] OTHER -> Wrong(Updated(AppId("web")))],
  [m \in MCMessages |->
     CASE Len(m) = 1 -> Means(Connected(AppId("web") @@ Name("Safari")),
                              [on |-> "applicationConnected", app |-> App("web", {"Safari"})])
       [] Len(m) = 2 -> Wrong(Connected(Name("Safari")))
       [] Len(m) = 3 -> Means(Disconnected(AppId("web")),
                              [on |-> "applicationDisconnected", app |-> App("web", {})])
       [] Len(m) = 4 -> Means(Msg("_rpc_reportCurrentState:", Empty), [on |-> "ignored"])
       [] OTHER -> Wrong(Msg("_rpc_forwardGetListing:", Dict(AppId("web"))))],
  [m \in MCMessages |->
     CASE Len(m) = 1 -> Wrong(Dict("__argument" :> Empty))
       [] Len(m) = 2 -> Means(SentListing(<<>>), Listed(<<>>))
       [] Len(m) = 3 -> Wrong(SentListing("1" :> Dict(Page(1) @@ "WIRTitleKey" :> Uint(1))))
       [] Len(m) = 4 -> Wrong(SentListing("3" :> Dict(Page(3))))
       [] OTHER -> Wrong(Disconnected(AppId("web") @@ "WIRIsApplicationProxyKey" :> Uint(1)))]>>
==============================================================================
