--------------------------- MODULE MCComposeStack ----------------------------
(***************************************************************************)
(* The stack of this repository and what an edit may make of it: one edit  *)
(* of the stack at a time, and pairs of those that meet in one rule.       *)
(***************************************************************************)
EXTENDS ComposeStack

Opt(n, v) == [name |-> n, value |-> v]
NoCheck == [form |-> "NONE", program |-> "", options |-> <<>>, alone |-> TRUE]
Check(form, program, options) ==
  [form |-> form, program |-> program, options |-> options, alone |-> TRUE]
IsReady(options) == Check("CMD", "pg_isready", options)
AsUser == <<Opt("user", "sf"), Opt("dbname", "sf")>>

Plain ==
  [ports |-> {}, env |-> [NODE_ENV |-> "production"], depends |-> <<>>,
   check |-> NoCheck, period |-> 0, grace |-> 10, restart |-> "unless-stopped",
   volumes |-> {}, envFile |-> FALSE, built |-> FALSE, uncheckedInputs |-> FALSE,
   init |-> FALSE, profiles |-> {}]
Port(ip, published, target) ==
  [ip |-> ip, published |-> published, target |-> target, protocol |-> "tcp"]
Media == [type |-> "volume", source |-> "media", target |-> "/data/media",
          readOnly |-> FALSE, createHostPath |-> TRUE]
App == [Plain EXCEPT !.built = TRUE, !.volumes = {EnvMount}]
After(healthy, others) ==
  [d \in healthy \cup others |->
     IF d = "migrate" THEN "service_completed_successfully"
     ELSE IF d \in healthy THEN "service_healthy" ELSE "service_started"]
AppEnv(more) == [k \in {"NODE_ENV"} \cup DOMAIN more |->
                   IF k = "NODE_ENV" THEN "production" ELSE more[k]]

Stack ==
  [postgres |-> [Plain EXCEPT
     !.ports = {Port("127.0.0.1", "5442", "5432")}, !.period = 60,
     !.check = IsReady(<<Opt("host", "127.0.0.1")>> \o AsUser)],
   redis |-> [Plain EXCEPT
     !.ports = {Port("127.0.0.1", "6389", "6379")}, !.period = 10,
     !.check = Check("CMD-SHELL", RedisHealthcheck, <<>>)],
   migrate |-> [App EXCEPT
     !.depends = After({"postgres"}, {}), !.init = TRUE, !.restart = "no"],
   api |-> [App EXCEPT
     !.env = AppEnv([MEDIA_DIR |-> "/data/media", API_PORT |-> "3001"]),
     !.volumes = {EnvMount, Media}, !.grace = 15, !.period = 20,
     !.depends = After({"migrate", "postgres", "redis"}, {}),
     !.check = Check("CMD", "wget", <<Opt("port", "3001")>>)],
   worker |-> [App EXCEPT
     !.env = AppEnv([MEDIA_DIR |-> "/data/media"]),
     !.volumes = {EnvMount, Media}, !.grace = 30, !.period = 90,
     !.depends = After({"migrate", "postgres", "redis"}, {}),
     !.check = Check("CMD", WorkerHealthcheck, <<>>)],
   web |-> [App EXCEPT
     !.env = AppEnv([API_INTERNAL_URL |-> "3001"]),
     !.ports = {Port("0.0.0.0", "3000", "3000")},
     !.depends = After({"migrate", "api"}, {})]]

Takes(n, f) == [name |-> n, field |-> f, default |-> "other", required |-> FALSE]
Line(mask) == [not |-> FALSE, mask |-> mask]
Back(mask) == [not |-> TRUE, mask |-> mask]
Edge(target) == [written |-> target, target |-> target, form |-> "path"]
File(edges) == [edges |-> edges, parses |-> TRUE, outside |-> FALSE]
Databases0 == Path("infra", "docker-compose.yml")
Apps0 == Path("infra", "docker-compose.app.yml")
Extra == Path("infra", "extra.yml")

\* Part of the workspace: two apps and what they link, one link behind another.
Dir(name, externals, links) == [name |-> name, externals |-> externals, links |-> links]
Workspace ==
  "apps/api" :> Dir("@sf/api", {"fastify"}, {"@sf/db"})
  @@ "apps/worker" :> Dir("@sf/worker", {"bullmq"}, {"@sf/db"})
  @@ "packages/db" :> Dir("@sf/db", {"drizzle-orm"}, {"@sf/config"})
  @@ "packages/config" :> Dir("@sf/config", {"zod", "server-only"}, {})
  @@ "apps/web" :> Dir("@sf/web", {"next"}, {"@sf/config"})

At(name, from) == [name |-> name, from |-> from]
\* What a build that goes well puts into an image of a package of the workspace.
DbLoads == {At("drizzle-orm", "packages/db"), At("zod", "packages/config")}
DbFiles == {FileAt("@sf/config", "packages/db")}
Content(loads, files) ==
  [loads |-> loads, there |-> {At("server-only", "packages/config")}, files |-> files,
   tests |-> {}, blind |-> FALSE]
Built ==
  [api |-> Content(DbLoads \cup {At("fastify", "apps/api"), At("tsx", "apps/api")},
                   DbFiles \cup {FileAt("@sf/db", "apps/api")}),
   worker |-> Content(DbLoads \cup {At("bullmq", "apps/worker"), At("tsx", "apps/worker")},
                      DbFiles \cup {FileAt("@sf/db", "apps/worker")}),
   migrate |-> Content(DbLoads \cup {At("tsx", "packages/db")},
                       DbFiles \cup {FileAt("migrations", "packages/db"),
                                     FileAt("journal", "packages/db")}),
   web |-> Content({At("next", "apps/web")}, {FileAt("server.js", "apps/web")})]

Good ==
  [services |-> Stack,
   schema |-> "match", workspace |-> Workspace, images |-> Built,
   takes |-> {Takes("WEB_PORT", "web port"), Takes("APP_VERSION", "build arg"),
              Takes("GIT_COMMIT", "build arg")},
   files |-> RootFile :> File({Edge(Databases0), Edge(Apps0)})
             @@ Databases0 :> File({}) @@ Apps0 :> File({}),
   present |-> {}, ownIgnore |-> FALSE,
   ignore |-> <<Line(".env"), Line(".env.*"), Line("**/.env"), Line("**/.env.*"), Line("docs")>>,
   testEnv |-> [postgres |-> [host |-> "localhost", port |-> "5442"],
                redis |-> [host |-> "localhost", port |-> "6389"]]]

With(s, service) == [Good EXCEPT !.services[s] = service]
P == Stack["postgres"]
R == Stack["redis"]
M == Stack["migrate"]
A == Stack["api"]
W == Stack["worker"]
X == Stack["web"]

ServiceEdits ==
  {With("postgres", v) : v \in {
      [P EXCEPT !.check = IsReady(AsUser)],
      [P EXCEPT !.check = IsReady(<<Opt("host", "/var/run/postgresql")>> \o AsUser)],
      [P EXCEPT !.check = IsReady(AsUser \o <<Opt("host", "::1"), Opt("port", "5432")>>)],
      [P EXCEPT !.check.alone = FALSE], [P EXCEPT !.check = NoCheck],
      [P EXCEPT !.period = 30], [P EXCEPT !.period = 90],
      [P EXCEPT !.ports = {Port("::1", "5442", "5432")}],
      [P EXCEPT !.restart = "no"]}}
  \cup {With("redis", v) : v \in {
      [R EXCEPT !.check = Check("CMD", "redis-cli ping", <<>>)],
      [R EXCEPT !.check.form = "CMD"], [R EXCEPT !.period = 0],
      [R EXCEPT !.ports = {Port("0.0.0.0", "6389", "6379")}]}}
  \cup {With("migrate", v) : v \in {
      [M EXCEPT !.init = FALSE], [M EXCEPT !.depends = After({}, {"postgres"})],
      [M EXCEPT !.volumes = {[EnvMount EXCEPT !.createHostPath = TRUE]}],
      [M EXCEPT !.uncheckedInputs = TRUE]}}
  \cup {With("api", v) : v \in {
      [A EXCEPT !.grace = 10], [A EXCEPT !.grace = 20], [A EXCEPT !.profiles = {"full"}],
      [A EXCEPT !.env = AppEnv([MEDIA_DIR |-> "/data/media"])],
      [A EXCEPT !.check.options = <<Opt("port", "3000")>>],
      [A EXCEPT !.depends = After({"migrate", "postgres"}, {"redis"})],
      [A EXCEPT !.restart = "no"], [A EXCEPT !.volumes = {EnvMount}],
      [A EXCEPT !.ports = {Port("127.0.0.1", "3001", "3001")}]}}
  \cup {With("worker", v) : v \in {
      [W EXCEPT !.grace = 10], [W EXCEPT !.check.alone = FALSE],
      [W EXCEPT !.check = NoCheck], [W EXCEPT !.envFile = TRUE],
      [W EXCEPT !.depends = After({"postgres", "redis"}, {})],
      [W EXCEPT !.env = AppEnv([MEDIA_DIR |-> "/tmp"])]}}
  \cup {With("web", v) : v \in {
      [X EXCEPT !.env = AppEnv([API_INTERNAL_URL |-> "3000"])], [X EXCEPT !.ports = {}],
      [X EXCEPT !.env.NODE_ENV = "development"],
      [X EXCEPT !.depends = After({"migrate"}, {"api"})]}}
  \cup {[Good EXCEPT !.services = [s \in RequiredServices \ {"worker"} |-> Stack[s]]]}

TakeEdits ==
  {[Good EXCEPT !.takes = @ \cup {t}] : t \in {
      Takes("WEB_PORT", "api port"), Takes("TAG", "image"),
      [Takes("APP_VERSION", "build arg") EXCEPT !.required = TRUE],
      [Takes("GIT_COMMIT", "label") EXCEPT !.default = "control"]}}

FileEdits ==
  {[Good EXCEPT !.present = {f}] : f \in {
      Path("root", "compose.override.yaml"), Path("infra", "docker-compose.override.yml"),
      Path("root", "docker-compose.yml"), Path("infra", "compose.yaml"),
      Path("infra", ".env"), Path("root", ".env"), Path("docs", "compose.yaml")}}
  \cup {[Good EXCEPT !.files = (Apps0 :> File({e})) @@ (Extra :> File({})) @@ @] : e \in {
      Edge(Extra), [Edge(Databases0) EXCEPT !.target = Extra],
      [Edge(Extra) EXCEPT !.written = Databases0],
      [Edge(Extra) EXCEPT !.form = "interpolated"], [Edge(Extra) EXCEPT !.form = "another"],
      [Edge(Path("infra", "gone.yml")) EXCEPT !.form = "gone"],
      Edge(Databases0), Edge(RootFile)}}
  \cup {[Good EXCEPT !.files[Apps0].parses = FALSE], [Good EXCEPT !.files[Apps0].outside = TRUE],
        [Good EXCEPT !.files = RootFile :> File({Edge(Databases0)})
                               @@ Databases0 :> File({Edge(Apps0)}) @@ Apps0 :> File({Edge(RootFile)})],
        [Good EXCEPT !.testEnv.postgres.port = "5432"], [Good EXCEPT !.testEnv.redis.host = "::1"]}

IgnoreEdits ==
  {[Good EXCEPT !.ignore = lines] : lines \in {
      <<>>, <<Line("docs")>>, <<Line("**/.env*")>>, <<Back("**"), Line("**/.env*")>>,
      <<Line("**/.env*"), Back("docs")>>, <<Line("**/.env*"), Back("apps/**")>>,
      <<Back("**"), Line(".env*"), Line("**/.env"), Line("**/.env.*")>>,
      <<Line(".env*"), Line("**/.env")>>, <<Line(".env*"), Line("**/.env.*"), Line("**/.env")>>,
      <<Line(".env"), Back("**"), Line(".env.*"), Line("**/.env"), Line("**/.env.*")>>}}
  \cup {[Good EXCEPT !.ownIgnore = TRUE]}

SchemaEdits == {[Good EXCEPT !.schema = folder] : folder \in Folders}

\* What an install, or a build, may leave out or let in; a package moved out of
\* the dependencies; a link to a package that is gone.
ImageEdits ==
  {[Good EXCEPT !.images[i] = content] : <<i, content>> \in
      {<<"api", [Built["api"] EXCEPT !.loads = @ \ {At("zod", "packages/config")}]>>,
       <<"api", [Built["api"] EXCEPT !.there = {}]>>,
       <<"api", [Built["api"] EXCEPT !.tests = {"packages/db"}]>>,
       <<"api", [Content({}, {}) EXCEPT !.blind = TRUE]>>,
       <<"migrate", [Built["migrate"] EXCEPT !.files = @ \ {FileAt("migrations", "packages/db")}]>>,
       <<"worker", [Built["worker"] EXCEPT !.files = @ \ DbFiles]>>,
       <<"web", [Built["web"] EXCEPT !.files = {}]>>}}
  \cup {[Good EXCEPT !.workspace["apps/worker"].externals = {},
                     !.images["worker"].loads = @ \ {At("bullmq", "apps/worker")}],
        [Good EXCEPT !.workspace["packages/db"].links = @ \cup {"@sf/gone"}]}

MCTrees == SchemaEdits \cup ImageEdits \cup ServiceEdits \cup TakeEdits \cup FileEdits \cup IgnoreEdits
MCShells ==
  {{}, {"COMPOSE_ANSI"}, {"COMPOSE_FILE"}, {"COMPOSE_PROFILES"}, {"WEB_PORT"}}
MCEntries == {RootFile, Databases0, Path("root", "stack.yml")}

MCStartTakes == [postgres |-> 60, redis |-> 10]
MCStopTakes ==
  [postgres |-> 5, redis |-> 5, migrate |-> 5, api |-> 11, worker |-> 26, web |-> 5]
=============================================================================
