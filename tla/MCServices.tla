----------------------------- MODULE MCServices -----------------------------
(* The services beside the job's own path, each on a small instance.  They  *)
(* share no state, so a behaviour is one of one of them.                    *)
EXTENDS Accounts, SignIn, Delivery, Intake, Upload, Access, Serving, Pipeline

CONSTANTS u1, p1

OneUser == [p \in Project |-> u1]
OneProject == [k \in Key |-> p1]

VARIABLE part  \* which of them

Parts == {"accounts", "signIn", "delivery", "intake", "upload", "access",
          "serving", "pipeline"}

\* The others stay as they begin.
Others(p) ==
  /\ p # "accounts" => UNCHANGED accountsVars
  /\ p # "signIn"   => UNCHANGED signInVars
  /\ p # "delivery" => UNCHANGED deliveryVars
  /\ p # "intake"   => UNCHANGED intakeVars
  /\ p # "upload"   => UNCHANGED uploadVars
  /\ p # "access"   => UNCHANGED accessVars
  /\ p # "serving"  => UNCHANGED servingVars
  /\ p # "pipeline" => UNCHANGED pipelineVars

ServicesInit ==
  /\ part \in Parts
  /\ AccountsInit /\ SignInInit /\ DeliveryInit /\ IntakeInit /\ UploadInit
  /\ AccessInit /\ ServingInit /\ PipelineInit
  /\ part # "accounts" => \A a \in Account : row[a] = Unborn
  /\ \A a \in Account : file[a].state \subseteq {CHOOSE l \in Login : TRUE}
  /\ part # "delivery" => ~endpoint

ServicesNext ==
  /\ part' = part /\ Others(part)
  /\ \/ part = "accounts" /\ AccountsNext
     \/ part = "signIn" /\ SignInNext
     \/ part = "delivery" /\ DeliveryNext
     \/ part = "intake" /\ IntakeNext
     \/ part = "upload" /\ UploadNext
     \/ part = "access" /\ AccessNext
     \/ part = "serving" /\ ServingNext
     \/ part = "pipeline" /\ PipelineNext

servicesVars == <<accountsVars, signInVars, deliveryVars, intakeVars, uploadVars,
                  accessVars, servingVars, pipelineVars, part>>

ServicesSpec == ServicesInit /\ [][ServicesNext]_servicesVars
\* Fairness, each for the behaviours of its own part.  Delivery: the interval
\* fires and the tick goes on; a fetch that is tried again and again succeeds
\* once; requests end and leases of dead runners lapse.
AtDelivery == part = "delivery"
DeliveryFairness ==
  /\ WF_deliveryVars(AtDelivery /\ TickGoesOn)
  /\ SF_deliveryVars(AtDelivery /\ ScanPuts) /\ SF_deliveryVars(AtDelivery /\ ScanLists)
  /\ SF_deliveryVars(AtDelivery /\ ScanArchives)
  /\ \A v \in Video :
       /\ WF_deliveryVars(AtDelivery /\ RunnerFails(v))
       /\ WF_deliveryVars(AtDelivery /\ PostsEvent(v))
       /\ WF_deliveryVars(AtDelivery /\ RetryDue(v))
       /\ WF_deliveryVars(AtDelivery /\ LeaseOfDeadLapses(v))

\* Pipeline: processes are started again and go on, and what dead ones held
\* runs out.
AtPipeline == part = "pipeline"
PipelineFairness ==
  /\ \A g \in Gateway : /\ WF_pipelineVars(AtPipeline /\ StartGateway(g))
                        /\ WF_pipelineVars(AtPipeline /\ Works(g))
  /\ \A j \in Order :
       /\ WF_pipelineVars(AtPipeline /\ ClaimRunsOut(j) /\ ~ClaimInUse(j))
       /\ WF_pipelineVars(AtPipeline /\ LeaseRunsOut(j) /\ ~LeaseInUse(j))

ServicesLiveSpec == ServicesSpec /\ DeliveryFairness /\ PipelineFairness

\* Every variable has its type.
ServicesTypeOK ==
  /\ AccountsTypeOK /\ SignInTypeOK /\ DeliveryTypeOK /\ IntakeTypeOK
  /\ UploadTypeOK /\ AccessTypeOK /\ ServingTypeOK /\ PipelineTypeOK

\* Bounds.  A mixture of credentials two requests made is followed until they
\* have ended, without a job's requests; one post of a sign-in is under way, and
\* a process closes when no other is up; beside a request with two inputs there
\* is at most the fetch of an output; and a request whose files stay behind is
\* not followed.
Bounded ==
  /\ \A a \in Account : contended[a] =>
       Busy(a) # {} /\ wire[a] = {} /\ ~outdated[a] /\ ~lost[a]
  /\ \A s \in Subscriber : sign[s] <= 1
  /\ \A p, q \in Signer : run[p].closing /\ run[q].pc # "off" => p = q
  /\ \A c, d \in Client : intake[c].n = 2 /\ c # d =>
       intake[d].n = 0 \/ intake[d].fetch
  /\ abandoned = {}
=============================================================================
