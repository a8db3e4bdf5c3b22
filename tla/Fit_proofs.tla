------------------------------- MODULE Fit_proofs ------------------------------
(***************************************************************************)
(* Which trips give a model that can be kept in Redis, for any trips.      *)
(***************************************************************************)
EXTENDS Fit, TLAPS

(***************************************************************************)
(* A feature is NaN only if the field it comes from is.                    *)
(***************************************************************************)
LEMMA RawFeatures ==
  ASSUME NEW t \in TripType
  PROVE  (\A f \in Features : ExtractRaw(t)[f] # NaN) <=> NaN \notin {t.distance, t.lat, t.lon}
<1>1. \A h \in Int : SinRank(h) \in Int
  BY DEF SinRank
<1>2. t.hour \in Int /\ (t.hour + 6) % 24 \in Int /\ t.passenger \in Int
  BY DEF TripType
<1>3. /\ ExtractRaw(t).sin_hour # NaN
      /\ ExtractRaw(t).cos_hour # NaN
      /\ ExtractRaw(t).is_weekend # NaN
      /\ ExtractRaw(t).is_airport # NaN
      /\ ExtractRaw(t).passenger_count # NaN
  BY <1>1, <1>2, NaNAssumption DEF ExtractRaw, Flag
<1>4. /\ ExtractRaw(t).trip_distance = t.distance
      /\ ExtractRaw(t).pickup_lat = t.lat
      /\ ExtractRaw(t).pickup_lon = t.lon
  BY DEF ExtractRaw
<1> QED
  BY <1>3, <1>4 DEF Features

(***************************************************************************)
(* A scaler fitted to trips without a NaN, even to none, makes finite rows *)
(* of all of them.                                                         *)
(***************************************************************************)
NoNaN(trips) ==
  \A i \in 1 .. Len(trips) : NaN \notin {trips[i].distance, trips[i].lat, trips[i].lon}

LEMMA CleanScaler ==
  ASSUME NEW trips \in Seq(TripType)
  PROVE  /\ FitScaler(trips).means = Features <=> NoNaN(trips)
         /\ NoNaN(trips) => \A f \in Features : FitScaler(trips).stds[f] = 1
<1>1. \A i \in 1 .. Len(trips) : trips[i] \in TripType
  OBVIOUS
<1>2. NoNaN(trips) <=> \A f \in Features : MeanIsFinite(trips, f)
  BY <1>1, RawFeatures DEF NoNaN, MeanIsFinite
<1> QED
  BY <1>2 DEF FitScaler, Std

LEMMA CleanRows ==
  ASSUME NEW train \in Seq(TripType), NoNaN(train), NEW trips \in Seq(TripType)
  PROVE  MatrixIsFinite(FitScaler(train), trips) <=> NoNaN(trips)
<1>1. \A i \in 1 .. Len(trips) : trips[i] \in TripType
  OBVIOUS
<1>2. ASSUME NEW t \in TripType
      PROVE  VectorIsFinite(FitScaler(train), t) <=> NaN \notin {t.distance, t.lat, t.lon}
  BY CleanScaler, RawFeatures, NaNAssumption DEF VectorIsFinite
<1> QED
  BY <1>1, <1>2 DEF MatrixIsFinite, NoNaN

(***************************************************************************)
(* With a learning rate that does not diverge, SetActiveModel can write    *)
(* the model (redis.go:53) exactly if the file had two or more valid trips *)
(* and none of them has a NaN: whatever features are the same in all       *)
(* trips, and wherever the split falls.                                    *)
(***************************************************************************)
THEOREM CleanIsPublishable ==
  ASSUME NEW trips \in Seq(TripType), trips # <<>>
  PROVE  Marshals(TrainDistributed(trips, FALSE)) <=> Clean(trips)
<1> DEFINE n     == Len(trips)
           k     == SplitAt(n)
           train == SubSeq(trips, 1, k)
           test  == SubSeq(trips, k + 1, n)
           scaler  == FitScaler(train)
           weights == train = <<>> \/ MatrixIsFinite(scaler, train)
<1>1. n \in Nat \ {0} /\ k \in 0 .. n-1 /\ (k = 0 <=> n = 1)
  <2>1. \A j \in Nat \ {0} : SplitAt(j) \in 0 .. j-1 /\ (SplitAt(j) = 0 <=> j = 1)
    BY DEF SplitAt
  <2>2. n \in Nat \ {0}
    OBVIOUS
  <2> QED
    BY <2>1, <2>2
<1>2. /\ train \in Seq(TripType) /\ Len(train) = k
      /\ \A i \in 1 .. k : train[i] = trips[i]
  BY <1>1
<1>3. /\ test \in Seq(TripType) /\ Len(test) = n - k
      /\ \A i \in 1 .. n-k : test[i] = trips[k + i]
  BY <1>1
<1>4. NoNaN(trips) <=> NoNaN(train) /\ NoNaN(test)
  <2>1. ASSUME NoNaN(train), NoNaN(test), NEW i \in 1 .. n
        PROVE  NaN \notin {trips[i].distance, trips[i].lat, trips[i].lon}
    <3>1. CASE i <= k
      BY <1>1, <1>2, <2>1, <3>1 DEF NoNaN
    <3>2. CASE i > k
      <4> HIDE DEF n, k, test
      <4>1. i - k \in 1 .. n-k /\ k + (i - k) = i
        BY <1>1, <3>2
      <4>2. test[i - k] = trips[i]
        BY <1>3, <4>1
      <4> QED
        BY <1>3, <2>1, <4>1, <4>2 DEF NoNaN
    <3> QED
      BY <1>1, <3>1, <3>2
  <2>2. NoNaN(trips) => NoNaN(train)
    BY <1>1, <1>2 DEF NoNaN
  <2>3. NoNaN(trips) => NoNaN(test)
    BY <1>1, <1>3 DEF NoNaN
  <2> QED
    BY <2>1, <2>2, <2>3 DEF NoNaN
<1>5. train = <<>> <=> n = 1
  BY <1>1, <1>2
<1> HIDE DEF n, k, train, test
<1>6. test # <<>>
  <2>1. n - k > 0
    BY <1>1
  <2> QED
    BY <1>3, <2>1
<1>7. Marshals(TrainDistributed(trips, FALSE)) <=>
        /\ scaler.means = Features
        /\ \A f \in Features : scaler.stds[f] # NaN
        /\ weights
        /\ ComputeMSE(weights, scaler, train)
        /\ Evaluate(weights, scaler, train)
        /\ Evaluate(weights, scaler, test)
  BY DEF Marshals, TrainDistributed, n, k, train, test
<1>8. scaler.means = Features <=> NoNaN(train)
  BY <1>2, CleanScaler
<1>9. NoNaN(train) => /\ \A f \in Features : scaler.stds[f] # NaN
                      /\ MatrixIsFinite(scaler, train)
                      /\ MatrixIsFinite(scaler, test) <=> NoNaN(test)
  BY <1>2, <1>3, CleanScaler, CleanRows, NaNAssumption
<1> HIDE DEF scaler
<1>10. Marshals(TrainDistributed(trips, FALSE)) <=> n # 1 /\ NoNaN(train) /\ NoNaN(test)
  BY <1>5, <1>6, <1>7, <1>8, <1>9 DEF ComputeMSE, Evaluate
<1>11. Clean(trips) <=> n # 1 /\ NoNaN(trips)
  BY <1>1 DEF Clean, NoNaN, n
<1> QED
  BY <1>4, <1>10, <1>11

================================================================================
